---- MODULE Spec2Model ----
(***************************************************************************)
(* Smart quiz generator: the text-to-question pipeline of src/backend.     *)
(* A Python str is modelled as a sequence of one-character strings, a list *)
(* as a sequence and a dict as a function whose domain is its key set.     *)
(***************************************************************************)
EXTENDS Integers, Sequences, FiniteSets, TLC

VARIABLES
    model_loaded,             \* self.model_loaded of each generator instance
    SIMILARITY_MODEL_LOADED,  \* validator.py module global
    op,                       \* the entry point that was called last
    args,                     \* its arguments as the caller passed them
    after,                    \* the caller's argument objects when it returned
    ret,                      \* what it returned, or the exception it raised
    oracle,                   \* what the external capabilities did during the call
    generate_calls,           \* calls made to the text generation capability
    embed_calls               \* calls made to the embedding capability

vars ==
    <<model_loaded, SIMILARITY_MODEL_LOADED, op, args, after, ret, oracle,
      generate_calls, embed_calls>>

-----------------------------------------------------------------------------
(* Python built-ins used by the code *)

Max(a, b) ==
    IF a >= b THEN a ELSE b

Min(a, b) ==
    IF a <= b THEN a ELSE b

Range(s) ==
    {s[i] : i \in 1..Len(s)}

\* The list of f's values, computed once.
List(f) ==
    SubSeq(f, 1, Len(f))

Rep(c, n) ==
    List([i \in 1..n |-> c])

\* dict.get(key, default)
DictGet(d, k, default) ==
    IF k \in DOMAIN d THEN d[k] ELSE default

\* x in list
In(x, list) ==
    \E i \in 1..Len(list) : list[i] = x

\* str.endswith(suffix)
endswith(s, suffix) ==
    /\ Len(s) >= Len(suffix)
    /\ SubSeq(s, Len(s) - Len(suffix) + 1, Len(s)) = suffix

\* needle in haystack, for two str (a needle whose first character does not
\* occur at all is rejected before the positions are tried)
Contains(haystack, needle) ==
    \/ needle = <<>>
    \/ /\ needle[1] \in Range(haystack)
       /\ \E i \in 1..(Len(haystack) - Len(needle) + 1) :
             /\ haystack[i] = needle[1]
             /\ SubSeq(haystack, i, i + Len(needle) - 1) = needle

UpperChars ==
    <<"A", "B", "C", "D", "E", "F", "G", "H", "I", "J", "K", "L", "M", "N", "O", "P", "Q", "R", "S", "T", "U", "V", "W", "X", "Y", "Z">>

LowerChars ==
    <<"a", "b", "c", "d", "e", "f", "g", "h", "i", "j", "k", "l", "m", "n", "o", "p", "q", "r", "s", "t", "u", "v", "w", "x", "y", "z">>

DigitChars ==
    <<"0", "1", "2", "3", "4", "5", "6", "7", "8", "9">>

UpperSet ==
    Range(UpperChars)

LowerOf ==
    [c \in UpperSet |-> LowerChars[CHOOSE i \in 1..Len(UpperChars) : UpperChars[i] = c]]

IsUpper(c) ==
    c \in UpperSet

lower_char(c) ==
    IF IsUpper(c) THEN LowerOf[c] ELSE c

\* str.lower()
lower(s) ==
    List([i \in 1..Len(s) |-> lower_char(s[i])])

\* str(n) for an int n >= 0
RECURSIVE PyStr(_)
PyStr(n) ==
    IF n < 10 THEN <<DigitChars[n + 1]>>
    ELSE PyStr(n \div 10) \o <<DigitChars[(n % 10) + 1]>>

\* sep.join(list)
RECURSIVE join(_, _)
join(sep, list) ==
    IF list = <<>> THEN <<>>
    ELSE IF Len(list) = 1 THEN list[1]
    ELSE list[1] \o sep \o join(sep, Tail(list))

\* sum(len(x) for x in list)
RECURSIVE SumLen(_)
SumLen(list) ==
    IF list = <<>> THEN 0 ELSE Len(list[1]) + SumLen(Tail(list))

\* a / b of two ints: the exact quotient, or the exception Python raises
TrueDiv(a, b) ==
    IF b = 0 THEN [raised |-> "ZeroDivisionError", num |-> 0, den |-> 0]
    ELSE [raised |-> "none", num |-> a, den |-> b]

\* q < n for a quotient q and an int n
QuotLess(q, n) ==
    q.num < n * q.den

-----------------------------------------------------------------------------
(* validator.py *)

MsgNoQuestionMark ==
    <<"Q", "u", "e", "s", "t", "i", "o", "n", " ", "s", "h", "o", "u", "l", "d", " ", "e", "n",
      "d", " ", "w", "i", "t", "h", " ", "q", "u", "e", "s", "t", "i", "o", "n", " ", "m", "a",
      "r", "k">>
MsgTooShort ==
    <<"Q", "u", "e", "s", "t", "i", "o", "n", " ", "t", "o", "o", " ", "s", "h", "o", "r", "t">>
MsgTooLong ==
    <<"Q", "u", "e", "s", "t", "i", "o", "n", " ", "t", "o", "o", " ", "l", "o", "n", "g">>
MsgOptionCount ==
    <<"S", "h", "o", "u", "l", "d", " ", "h", "a", "v", "e", " ", "4", " ", "o", "p", "t", "i",
      "o", "n", "s", ",", " ", "f", "o", "u", "n", "d", " ">>
MsgAnswerMissing ==
    <<"C", "o", "r", "r", "e", "c", "t", " ", "a", "n", "s", "w", "e", "r", " ", "n", "o", "t",
      " ", "f", "o", "u", "n", "d", " ", "i", "n", " ", "o", "p", "t", "i", "o", "n", "s">>
MsgDuplicate ==
    <<"D", "u", "p", "l", "i", "c", "a", "t", "e", " ", "o", "p", "t", "i", "o", "n", "s", " ",
      "f", "o", "u", "n", "d">>
MsgOptionsShort ==
    <<"O", "p", "t", "i", "o", "n", "s", " ", "t", "o", "o", " ", "s", "h", "o", "r", "t">>
MsgExplanationShort ==
    <<"E", "x", "p", "l", "a", "n", "a", "t", "i", "o", "n", " ", "t", "o", "o", " ", "s", "h",
      "o", "r", "t">>
MsgPoorDistractors ==
    <<"P", "o", "o", "r", " ", "q", "u", "a", "l", "i", "t", "y", " ", "d", "i", "s", "t", "r",
      "a", "c", "t", "o", "r", "s">>
MsgGood ==
    <<"G", "o", "o", "d", " ", "q", "u", "a", "l", "i", "t", "y", " ", "q", "u", "e", "s", "t",
      "i", "o", "n">>
FeedbackSeparator ==
    <<";", " ">>

remember_keywords ==
    << <<"w", "h", "a", "t">>,
       <<"w", "h", "e", "n">>,
       <<"w", "h", "e", "r", "e">>,
       <<"w", "h", "o">>,
       <<"d", "e", "f", "i", "n", "e">>,
       <<"l", "i", "s", "t">>,
       <<"n", "a", "m", "e">>,
       <<"i", "d", "e", "n", "t", "i", "f", "y">> >>
understand_keywords ==
    << <<"e", "x", "p", "l", "a", "i", "n">>,
       <<"d", "e", "s", "c", "r", "i", "b", "e">>,
       <<"s", "u", "m", "m", "a", "r", "i", "z", "e">>,
       <<"i", "n", "t", "e", "r", "p", "r", "e", "t">>,
       <<"c", "o", "m", "p", "a", "r", "e">> >>
apply_keywords ==
    << <<"a", "p", "p", "l", "y">>,
       <<"d", "e", "m", "o", "n", "s", "t", "r", "a", "t", "e">>,
       <<"s", "o", "l", "v", "e">>,
       <<"u", "s", "e">>,
       <<"i", "m", "p", "l", "e", "m", "e", "n", "t">> >>
analyze_keywords ==
    << <<"a", "n", "a", "l", "y", "z", "e">>,
       <<"e", "x", "a", "m", "i", "n", "e">>,
       <<"c", "o", "m", "p", "a", "r", "e">>,
       <<"c", "o", "n", "t", "r", "a", "s", "t">>,
       <<"d", "i", "f", "f", "e", "r", "e", "n", "t", "i", "a", "t", "e">> >>
evaluate_keywords ==
    << <<"e", "v", "a", "l", "u", "a", "t", "e">>,
       <<"a", "s", "s", "e", "s", "s">>,
       <<"j", "u", "d", "g", "e">>,
       <<"c", "r", "i", "t", "i", "q", "u", "e">>,
       <<"j", "u", "s", "t", "i", "f", "y">> >>
create_keywords ==
    << <<"c", "r", "e", "a", "t", "e">>,
       <<"d", "e", "s", "i", "g", "n">>,
       <<"d", "e", "v", "e", "l", "o", "p">>,
       <<"f", "o", "r", "m", "u", "l", "a", "t", "e">>,
       <<"c", "o", "n", "s", "t", "r", "u", "c", "t">> >>

any_keyword_in(keywords, question_lower) ==
    \E k \in 1..Len(keywords) : Contains(question_lower, keywords[k])

\* Mutation: the understand keywords are tried before the analyze keywords.
check_bloom_level_understand_first(question_text) ==
    LET question_lower == lower(question_text)
    IN  IF any_keyword_in(create_keywords, question_lower) THEN "create"
        ELSE IF any_keyword_in(evaluate_keywords, question_lower) THEN "evaluate"
        ELSE IF any_keyword_in(understand_keywords, question_lower) THEN "understand"
        ELSE IF any_keyword_in(analyze_keywords, question_lower) THEN "analyze"
        ELSE IF any_keyword_in(apply_keywords, question_lower) THEN "apply"
        ELSE IF any_keyword_in(remember_keywords, question_lower) THEN "remember"
        ELSE "understand"

check_bloom_level(question_text) ==
    LET question_lower == lower(question_text)
    IN  IF any_keyword_in(create_keywords, question_lower) THEN "create"
        ELSE IF any_keyword_in(evaluate_keywords, question_lower) THEN "evaluate"
        ELSE IF any_keyword_in(analyze_keywords, question_lower) THEN "analyze"
        ELSE IF any_keyword_in(apply_keywords, question_lower) THEN "apply"
        ELSE IF any_keyword_in(understand_keywords, question_lower) THEN "understand"
        ELSE IF any_keyword_in(remember_keywords, question_lower) THEN "remember"
        ELSE "understand"

\* The score of one distractor whose cosine similarity to the correct answer
\* is sim/100 (validator.py lines 142-147, similarities in hundredths).
distractor_similarity_score(sim) ==
    IF 30 <= sim /\ sim <= 70 THEN 100
    ELSE IF sim < 30 THEN Max(0, 100 - (30 - sim) * 2)
    ELSE Max(0, 100 - (sim - 70) * 3)

RECURSIVE SumSeq(_)
SumSeq(s) ==
    IF s = <<>> THEN 0 ELSE s[1] + SumSeq(Tail(s))

\* [opt for opt in options if opt != correct_answer]
distractors_of(options, correct_answer) ==
    SelectSeq(options, LAMBDA opt : opt # correct_answer)

\* Whether score_distractor_quality reaches similarity_model.encode.
encode_called(loaded, options, correct_answer) ==
    loaded /\ Len(distractors_of(options, correct_answer)) # 0

\* emb is what similarity_model.encode does on this call: it raises, or
\* emb.sim is the similarity (in hundredths) of each encoded string to the
\* correct answer.
\* The try block of lines 124-153.
score_with_similarity_model(options, correct_answer, emb) ==
    LET distractors == distractors_of(options, correct_answer)
    IN  IF Len(distractors) = 0 THEN 0
        ELSE IF emb.status = "raise" THEN 70
        ELSE LET scores == [i \in 1..Len(distractors) |->
                               distractor_similarity_score(emb.sim[distractors[i]])]
             IN  SumSeq(scores) \div Len(scores)

\* Mutation: the distractor list is inspected before the capability flag.
score_distractor_quality_flag_late(loaded, options, correct_answer, emb) ==
    IF Len(distractors_of(options, correct_answer)) = 0 THEN 0
    ELSE IF ~loaded THEN 70
    ELSE score_with_similarity_model(options, correct_answer, emb)

score_distractor_quality_impl(loaded, options, correct_answer, emb) ==
    IF ~loaded THEN 70
    ELSE score_with_similarity_model(options, correct_answer, emb)

score_distractor_quality(options, correct_answer, emb) ==
    score_distractor_quality_impl(SIMILARITY_MODEL_LOADED, options, correct_answer, emb)

\* sum(len(opt) for opt in options) / len(options) if options else 0
avg_option_length(options) ==
    IF options # <<>> THEN TrueDiv(SumLen(options), Len(options))
    ELSE [raised |-> "none", num |-> 0, den |-> 1]

\* Mutation: the answer is matched without regard to case.
answer_missing_ignoring_case(correct_answer, options) ==
    ~\E i \in 1..Len(options) : lower(options[i]) = lower(correct_answer)

\* if correct_answer not in options
answer_missing(correct_answer, options) ==
    ~In(correct_answer, options)

\* Mutation: the distinct options are counted against 4, not against len(options).
duplicate_options_against_four(options) ==
    Cardinality(Range(options)) # 4

\* if len(set(options)) != len(options)
duplicate_options(options) ==
    Cardinality(Range(options)) # Len(options)

\* The if-statements of lines 26-69 in order: whether the branch is taken,
\* what it subtracts from score and what it appends to feedback.
quality_checks(question_text, options, correct_answer, explanation, avg, distractor_score) ==
    << [taken |-> ~endswith(question_text, <<"?">>), penalty |-> 10,
        message |-> MsgNoQuestionMark],
       [taken |-> Len(question_text) < 10, penalty |-> 20, message |-> MsgTooShort],
       [taken |-> Len(question_text) > 200, penalty |-> 10, message |-> MsgTooLong],
       [taken |-> Len(options) # 4, penalty |-> 30,
        message |-> MsgOptionCount \o PyStr(Len(options))],
       [taken |-> answer_missing(correct_answer, options), penalty |-> 40,
        message |-> MsgAnswerMissing],
       [taken |-> duplicate_options(options), penalty |-> 25,
        message |-> MsgDuplicate],
       [taken |-> QuotLess(avg, 5), penalty |-> 15, message |-> MsgOptionsShort],
       [taken |-> Len(explanation) < 10, penalty |-> 10, message |-> MsgExplanationShort],
       [taken |-> Len(options) >= 4 /\ distractor_score < 50, penalty |-> 20,
        message |-> MsgPoorDistractors] >>

RECURSIVE SumPenalty(_)
SumPenalty(checks) ==
    IF checks = <<>> THEN 0 ELSE checks[1].penalty + SumPenalty(Tail(checks))

\* Mutation: the lower clamp is forgotten.
clamp_score_upper_only(score) ==
    Min(100, score)

\* score = max(0, min(100, score))
clamp_score(score) ==
    Max(0, Min(100, score))

validate_question_quality(question, emb) ==
    LET question_text == DictGet(question, "question", <<>>)
        options == DictGet(question, "options", <<>>)
        correct_answer == DictGet(question, "correct_answer", <<>>)
        explanation == DictGet(question, "explanation", <<>>)
        avg == avg_option_length(options)
        distractor_score == score_distractor_quality(options, correct_answer, emb)
        taken == SelectSeq(quality_checks(question_text, options, correct_answer,
                                          explanation, avg, distractor_score),
                           LAMBDA c : c.taken)
        feedback == [i \in 1..Len(taken) |-> taken[i].message]
        score == 100 - SumPenalty(taken)
        metrics == [question_length |-> Len(question_text),
                    option_count |-> Len(options),
                    explanation_length |-> Len(explanation),
                    has_question_mark |-> endswith(question_text, <<"?">>),
                    unique_options |-> Cardinality(Range(options)) = Len(options),
                    bloom_level |-> check_bloom_level(question_text)]
        \* quality_metrics["distractor_quality"] is set only inside the
        \* if len(options) >= 4 of line 64
        keys == DOMAIN metrics
                \cup (IF Len(options) >= 4 THEN {"distractor_quality"} ELSE {})
    IN  IF avg.raised # "none" THEN [raised |-> avg.raised]
        ELSE [raised |-> "none",
              score |-> clamp_score(score),
              feedback |-> IF feedback # <<>> THEN join(FeedbackSeparator, feedback)
                           ELSE MsgGood,
              quality_metrics |->
                  [k \in keys |-> IF k = "distractor_quality" THEN distractor_score
                                  ELSE metrics[k]]]

\* Mutation: a key that is missing is inserted with the default
\* (dict.setdefault).
dict_after_setdefault(d, key, default) ==
    IF key \in DOMAIN d THEN d
    ELSE [k \in DOMAIN d \cup {key} |-> IF k = key THEN default ELSE d[k]]

\* The dict after d.get(key, default): get inserts nothing.
dict_after_get(d, key, default) ==
    d

\* The question dict as validate_question_quality leaves it: lines 20-23 read
\* four keys with get; everything after works on those locals and on new
\* lists (set(options), [correct_answer] + distractors).
question_after_validation(question) ==
    dict_after_get(
        dict_after_get(
            dict_after_get(
                dict_after_get(question, "question", <<>>),
                "options", <<>>),
            "correct_answer", <<>>),
        "explanation", <<>>)

\* Mutation: each result is put in front of the earlier ones.
RECURSIVE validate_multiple_loop_prepending(_, _, _)
validate_multiple_loop_prepending(questions, embs, results) ==
    IF questions = <<>> THEN [raised |-> "none", results |-> results]
    ELSE LET validation_result == validate_question_quality(questions[1], embs[1])
         IN  IF validation_result.raised # "none" THEN validation_result
             ELSE validate_multiple_loop_prepending(Tail(questions), Tail(embs),
                                                    <<validation_result>> \o results)

\* for question in questions: results.append(validate_question_quality(question))
RECURSIVE validate_multiple_loop(_, _, _)
validate_multiple_loop(questions, embs, results) ==
    IF questions = <<>> THEN [raised |-> "none", results |-> results]
    ELSE LET validation_result == validate_question_quality(questions[1], embs[1])
         IN  IF validation_result.raised # "none" THEN validation_result
             ELSE validate_multiple_loop(Tail(questions), Tail(embs),
                                         Append(results, validation_result))

validate_multiple_questions(questions, embs) ==
    validate_multiple_loop(questions, embs, <<>>)

\* Whether validate_question_quality reaches similarity_model.encode.
validate_encode_called(question) ==
    LET options == DictGet(question, "options", <<>>)
        correct_answer == DictGet(question, "correct_answer", <<>>)
    IN  Len(options) >= 4
        /\ encode_called(SIMILARITY_MODEL_LOADED, options, correct_answer)

-----------------------------------------------------------------------------
(* processors.py *)

\* Marks a position whose character a substitution removes.
Drop ==
    "DROP"

Undropped(marked) ==
    SelectSeq(marked, LAMBDA c : c # Drop)

\* \s
IsSpace(c) ==
    c \in {" ", "\t", "\n"}

IsLetter(c) ==
    c \in UpperSet \/ c \in Range(LowerChars)

\* \w
IsWordChar(c) ==
    IsLetter(c) \/ c \in Range(DigitChars) \/ c = "_"

\* [.!?]
IsTerminator(c) ==
    c \in {".", "!", "?"}

\* re.sub(r'\s+', ' ', text)
collapse_whitespace(text) ==
    Undropped(List([i \in 1..Len(text) |->
        IF ~IsSpace(text[i]) THEN text[i]
        ELSE IF i > 1 /\ IsSpace(text[i - 1]) THEN Drop
        ELSE " "]))

\* re.sub(r'[^\w\s.!?,-]', '', text)
remove_special_characters(text) ==
    SelectSeq(text, LAMBDA c : IsWordChar(c) \/ IsSpace(c) \/ c \in {".", "!", "?", ",", "-"})

\* re.sub(r'[p]{2,}', 'p', text) for one punctuation mark p
collapse_repeated(text, p) ==
    Undropped(List([i \in 1..Len(text) |->
        IF text[i] = p /\ i > 1 /\ text[i - 1] = p THEN Drop ELSE text[i]]))

\* re.sub(r'([.!?])([A-Z])', r'\1 \2', text)
space_after_punctuation(text) ==
    Undropped(List([k \in 1..(2 * Len(text)) |->
        IF k % 2 = 0 THEN text[k \div 2]
        ELSE LET i == (k + 1) \div 2
             IN  IF i > 1 /\ IsTerminator(text[i - 1]) /\ IsUpper(text[i]) THEN " "
                 ELSE Drop]))

\* str.strip()
strip(s) ==
    IF \A i \in 1..Len(s) : IsSpace(s[i]) THEN <<>>
    ELSE LET first == CHOOSE i \in 1..Len(s) :
                          ~IsSpace(s[i]) /\ \A j \in 1..(i - 1) : IsSpace(s[j])
             last == CHOOSE i \in 1..Len(s) :
                         ~IsSpace(s[i]) /\ \A j \in (i + 1)..Len(s) : IsSpace(s[j])
         IN  SubSeq(s, first, last)

clean_text(text) ==
    strip(space_after_punctuation(
        collapse_repeated(collapse_repeated(collapse_repeated(
            remove_special_characters(collapse_whitespace(text)), "."), "!"), "?")))

\* The maximal runs of the characters of s marked TRUE in in_run, in order.
Runs(s, in_run) ==
    LET starts(i) == in_run[i] /\ (i = 1 \/ ~in_run[i - 1])
        ends(j) == in_run[j] /\ (j = Len(s) \/ ~in_run[j + 1])
        end_of(i) == CHOOSE j \in i..Len(s) : ends(j) /\ \A k \in i..(j - 1) : ~ends(k)
    IN  SelectSeq(List([i \in 1..Len(s) |->
                     IF starts(i) THEN SubSeq(s, i, end_of(i)) ELSE <<Drop>>]),
                  LAMBDA run : run # <<Drop>>)

\* len(s.split())
word_count(s) ==
    Cardinality({i \in 1..Len(s) : ~IsSpace(s[i]) /\ (i = 1 \/ IsSpace(s[i - 1]))})

\* [s.strip() for s in re.split(r'[.!?]+', cleaned_text) if s.strip()]
split_sentences(cleaned_text) ==
    LET pieces == Runs(cleaned_text,
                       List([i \in 1..Len(cleaned_text) |-> ~IsTerminator(cleaned_text[i])]))
        stripped == [i \in 1..Len(pieces) |-> strip(pieces[i])]
    IN  SelectSeq(stripped, LAMBDA s : s # <<>>)

\* '. '.join(current_chunk) + '.'
chunk_text_of(current_chunk) ==
    join(<<".", " ">>, current_chunk) \o <<".">>

\* Mutation: the last chunk is added whatever its word count.
last_chunk_kept_always(current_chunk, current_word_count) ==
    current_chunk # <<>>

\* if current_chunk and current_word_count >= 200
last_chunk_kept(current_chunk, current_word_count) ==
    current_chunk # <<>> /\ current_word_count >= 200

\* The loop of lines 20-33 and the last chunk of lines 36-38.
RECURSIVE accumulate_chunks(_, _, _, _)
accumulate_chunks(sentences, chunks, current_chunk, current_word_count) ==
    IF sentences = <<>>
    THEN IF last_chunk_kept(current_chunk, current_word_count)
         THEN Append(chunks, chunk_text_of(current_chunk))
         ELSE chunks
    ELSE LET sentence == sentences[1]
             sentence_word_count == word_count(sentence)
         IN  IF current_word_count + sentence_word_count > 300 /\ current_chunk # <<>>
             THEN accumulate_chunks(Tail(sentences),
                                    IF current_word_count >= 200
                                    THEN Append(chunks, chunk_text_of(current_chunk))
                                    ELSE chunks,
                                    <<sentence>>, sentence_word_count)
             ELSE accumulate_chunks(Tail(sentences), chunks,
                                    Append(current_chunk, sentence),
                                    current_word_count + sentence_word_count)

\* Mutation: the fallback chunk is put together again from the sentences.
fallback_chunks_rejoined(cleaned_text, sentences) ==
    <<chunk_text_of(sentences)>>

\* if not chunks: chunks = [cleaned_text]
fallback_chunks(cleaned_text, sentences) ==
    <<cleaned_text>>

preprocess_text(text) ==
    LET cleaned_text == clean_text(text)
        sentences == split_sentences(cleaned_text)
        chunks == accumulate_chunks(sentences, <<>>, <<>>, 0)
    IN  IF chunks = <<>> THEN fallback_chunks(cleaned_text, sentences) ELSE chunks

stop_words ==
    { <<"t", "h", "e">>,
      <<"a">>,
      <<"a", "n">>,
      <<"a", "n", "d">>,
      <<"o", "r">>,
      <<"b", "u", "t">>,
      <<"i", "n">>,
      <<"o", "n">>,
      <<"a", "t">>,
      <<"t", "o">>,
      <<"f", "o", "r">>,
      <<"o", "f">>,
      <<"w", "i", "t", "h">>,
      <<"b", "y">>,
      <<"i", "s">>,
      <<"a", "r", "e">>,
      <<"w", "a", "s">>,
      <<"w", "e", "r", "e">>,
      <<"b", "e">>,
      <<"b", "e", "e", "n">>,
      <<"b", "e", "i", "n", "g">>,
      <<"h", "a", "v", "e">>,
      <<"h", "a", "s">>,
      <<"h", "a", "d">>,
      <<"d", "o">>,
      <<"d", "o", "e", "s">>,
      <<"d", "i", "d">>,
      <<"w", "i", "l", "l">>,
      <<"w", "o", "u", "l", "d">>,
      <<"c", "o", "u", "l", "d">>,
      <<"s", "h", "o", "u", "l", "d">>,
      <<"m", "a", "y">>,
      <<"m", "i", "g", "h", "t">>,
      <<"c", "a", "n">>,
      <<"t", "h", "i", "s">>,
      <<"t", "h", "a", "t">>,
      <<"t", "h", "e", "s", "e">>,
      <<"t", "h", "o", "s", "e">>,
      <<"i">>,
      <<"y", "o", "u">>,
      <<"h", "e">>,
      <<"s", "h", "e">>,
      <<"i", "t">>,
      <<"w", "e">>,
      <<"t", "h", "e", "y">>,
      <<"m", "e">>,
      <<"h", "i", "m">>,
      <<"h", "e", "r">>,
      <<"u", "s">>,
      <<"t", "h", "e", "m">>,
      <<"m", "y">>,
      <<"y", "o", "u", "r">>,
      <<"h", "i", "s">>,
      <<"i", "t", "s">>,
      <<"o", "u", "r">>,
      <<"t", "h", "e", "i", "r">>,
      <<"f", "r", "o", "m">>,
      <<"u", "p">>,
      <<"a", "b", "o", "u", "t">>,
      <<"i", "n", "t", "o">>,
      <<"t", "h", "r", "o", "u", "g", "h">>,
      <<"d", "u", "r", "i", "n", "g">>,
      <<"b", "e", "f", "o", "r", "e">>,
      <<"a", "f", "t", "e", "r">>,
      <<"a", "b", "o", "v", "e">>,
      <<"b", "e", "l", "o", "w">>,
      <<"b", "e", "t", "w", "e", "e", "n">>,
      <<"a", "m", "o", "n", "g">>,
      <<"a", "r", "o", "u", "n", "d">>,
      <<"n", "e", "a", "r">>,
      <<"f", "a", "r">>,
      <<"h", "e", "r", "e">>,
      <<"t", "h", "e", "r", "e">>,
      <<"w", "h", "e", "r", "e">>,
      <<"w", "h", "e", "n">>,
      <<"w", "h", "y">>,
      <<"h", "o", "w">>,
      <<"w", "h", "a", "t">>,
      <<"w", "h", "i", "c", "h">>,
      <<"w", "h", "o">>,
      <<"w", "h", "o", "m">>,
      <<"w", "h", "o", "s", "e">>,
      <<"i", "f">>,
      <<"u", "n", "l", "e", "s", "s">>,
      <<"w", "h", "i", "l", "e">>,
      <<"a", "l", "t", "h", "o", "u", "g", "h">>,
      <<"b", "e", "c", "a", "u", "s", "e">>,
      <<"s", "i", "n", "c", "e">>,
      <<"s", "o">>,
      <<"t", "h", "a", "n">>,
      <<"s", "u", "c", "h">>,
      <<"b", "o", "t", "h">>,
      <<"e", "i", "t", "h", "e", "r">>,
      <<"n", "e", "i", "t", "h", "e", "r">> }

\* re.findall(r'\b[a-zA-Z]{2,}\b', cleaned_text): the runs of word characters
\* that are letters only and at least 2 long
find_words(cleaned_text) ==
    SelectSeq(Runs(cleaned_text,
                   List([i \in 1..Len(cleaned_text) |-> IsWordChar(cleaned_text[i])])),
              LAMBDA run : Len(run) >= 2 /\ \A i \in 1..Len(run) : IsLetter(run[i]))

\* The keys of Counter(meaningful_words), in the order of first occurrence.
counter_keys(meaningful_words) ==
    Undropped(List([i \in 1..Len(meaningful_words) |->
        IF \E j \in 1..(i - 1) : meaningful_words[j] = meaningful_words[i]
        THEN Drop ELSE meaningful_words[i]]))

frequency(meaningful_words, word) ==
    Cardinality({i \in 1..Len(meaningful_words) : meaningful_words[i] = word})

RECURSIVE Pow(_, _)
Pow(b, e) ==
    IF e = 0 THEN 1 ELSE b * Pow(b, e - 1)

\* (fa/total) * log(total/fa) > (fb/total) * log(total/fb), in exact arithmetic:
\* (total/fa)^fa > (total/fb)^fb
score_greater(total, fa, fb) ==
    Pow(total, fa) * Pow(fb, fb) > Pow(total, fb) * Pow(fa, fa)

\* sorted(scores.items(), key=lambda x: x[1], reverse=True): a stable sort,
\* here by insertion of each word after the words that do not score less.
RECURSIVE sorted_by_score(_, _, _)
sorted_by_score(words, meaningful_words, sorted) ==
    IF words = <<>> THEN sorted
    ELSE LET total == Len(meaningful_words)
             f(w) == frequency(meaningful_words, w)
             before == SelectSeq(sorted, LAMBDA w : ~score_greater(total, f(words[1]), f(w)))
             behind == SelectSeq(sorted, LAMBDA w : score_greater(total, f(words[1]), f(w)))
         IN  sorted_by_score(Tail(words), meaningful_words,
                             before \o <<words[1]>> \o behind)

\* Mutation: the slice is forgotten.
top_concepts_unsliced(sorted) ==
    sorted

\* sorted(...)[:10]
top_concepts(sorted) ==
    SubSeq(sorted, 1, Min(10, Len(sorted)))

extract_key_concepts(text) ==
    LET cleaned_text == clean_text(lower(text))
        words == find_words(cleaned_text)
        meaningful_words == SelectSeq(words, LAMBDA word : word \notin stop_words /\ Len(word) > 2)
    IN  top_concepts(sorted_by_score(counter_keys(meaningful_words), meaningful_words, <<>>))

-----------------------------------------------------------------------------
(* Inputs of the validator *)

MaxOptions ==
    4

MaxBatch ==
    2

Paris ==
    <<"P", "a", "r", "i", "s">>
Rome ==
    <<"R", "o", "m", "e">>
Madrid ==
    <<"M", "a", "d", "r", "i", "d">>
London ==
    <<"L", "o", "n", "d", "o", "n">>
Berlin ==
    <<"B", "e", "r", "l", "i", "n">>
QWhy ==
    <<"W", "h", "y", "?">>
QCompare ==
    <<"C", "o", "m", "p", "a", "r", "e", " ", "x", "?">>
QWhatIs ==
    <<"W", "h", "a", "t", " ", "i", "s", " ", "x">>
ExplShort ==
    <<"T", "o", "o", " ", "s", "h", "o", "r", "t">>
ExplLong ==
    <<"C", "a", "p", "i", "t", "a", "l", " ", "c", "i", "t", "y">>

paris_lower ==
    <<"p", "a", "r", "i", "s">>

\* Cosine similarities, in hundredths, that the embedding capability is
\* taken to produce: both slopes, the ideal band and its lower edge.
SimValues ==
    {-100, 29, 50, 100}

\* The ones validate_question_quality is run against.
ValidationSims ==
    {-100, 50, 100}

OptionWords ==
    {Paris, Rome}

DuplicateScenario ==
    <<Paris, Paris, London, Berlin>>

MissingAnswerScenario ==
    <<Paris, London, Berlin, Rome>>

OptionLists ==
    UNION {[1..n -> OptionWords] : n \in 0..MaxOptions}
    \cup {DuplicateScenario, MissingAnswerScenario}

Answers ==
    {Paris, Madrid, paris_lower}

QuestionTexts ==
    {QWhy, QCompare, QWhatIs, Rep("a", 199) \o <<"?">>, Rep("a", 200) \o <<"?">>}

Explanations ==
    {ExplShort, ExplLong}

QuestionKeys ==
    {"question", "options", "correct_answer", "explanation"}

WellFormedQuestions ==
    [question : QuestionTexts, options : OptionLists,
     correct_answer : Answers, explanation : Explanations]

GoodQuestion ==
    [question |-> QCompare, options |-> MissingAnswerScenario,
     correct_answer |-> Paris, explanation |-> ExplLong]

\* Dicts that lack some of the keys.
PartialQuestions ==
    {[k \in K |-> GoodQuestion[k]] : K \in SUBSET QuestionKeys}

\* A question as the generators return it, with difficulty and bloom_level.
LabelledQuestion ==
    [k \in QuestionKeys \cup {"difficulty", "bloom_level"} |->
        IF k = "difficulty" THEN <<"m", "e", "d", "i", "u", "m">>
        ELSE IF k = "bloom_level" THEN <<"a", "n", "a", "l", "y", "z", "e">>
        ELSE GoodQuestion[k]]

Questions ==
    WellFormedQuestions \cup PartialQuestions \cup {LabelledQuestion}

BatchQuestions ==
    {GoodQuestion,
     [GoodQuestion EXCEPT !.options = DuplicateScenario],
     [GoodQuestion EXCEPT !.correct_answer = Madrid],
     [k \in {"question", "explanation"} |-> GoodQuestion[k]],
     [k \in {} |-> GoodQuestion[k]],
     LabelledQuestion}

Batches ==
    UNION {[1..n -> BatchQuestions] : n \in 0..MaxBatch}

\* What the embedding capability can do when it is called for these options.
NoSim ==
    [d \in {} |-> 0]

NotCalled ==
    [status |-> "not called", sim |-> NoSim]

EncodeOutcomes(options, correct_answer, sims) ==
    {[status |-> "raise", sim |-> NoSim]}
    \cup [status : {"ok"},
          sim : [Range(distractors_of(options, correct_answer)) -> sims]]

\* What it does during one validate_question_quality call.
ValidationOracles(question) ==
    IF validate_encode_called(question)
    THEN EncodeOutcomes(DictGet(question, "options", <<>>),
                        DictGet(question, "correct_answer", <<>>), ValidationSims)
    ELSE {NotCalled}

\* One outcome per question of the batch: encode raises (TRUE), or every
\* distractor is found at similarity 1.0.
BatchOracle(questions, outcome) ==
    [i \in 1..Len(questions) |->
        IF ~validate_encode_called(questions[i]) THEN NotCalled
        ELSE IF outcome[i] THEN [status |-> "raise", sim |-> NoSim]
        ELSE [status |-> "ok",
              sim |-> [d \in Range(distractors_of(
                                     DictGet(questions[i], "options", <<>>),
                                     DictGet(questions[i], "correct_answer", <<>>)))
                         |-> 100]]]

RECURSIVE CountTrue(_)
CountTrue(flags) ==
    IF flags = <<>> THEN 0
    ELSE (IF flags[1] THEN 1 ELSE 0) + CountTrue(Tail(flags))

-----------------------------------------------------------------------------
(* The process: module initialisation, then one entry point at a time *)

Generators ==
    {"QuestionGenerator", "GeminiQuestionGenerator"}

Idle ==
    /\ op = "idle"
    /\ args = <<>>
    /\ after = <<>>
    /\ ret = <<>>
    /\ oracle = NotCalled
    /\ generate_calls = 0
    /\ embed_calls = 0

\* validator.py lines 7-12: the import either loads the model or not.
InitValidator ==
    /\ model_loaded = [g \in Generators |-> FALSE]
    /\ SIMILARITY_MODEL_LOADED \in BOOLEAN
    /\ Idle

\* The caller takes the result; the process waits for the next call.
Return ==
    /\ op # "idle"
    /\ op' = "idle"
    /\ args' = <<>>
    /\ after' = <<>>
    /\ ret' = <<>>
    /\ oracle' = NotCalled
    /\ generate_calls' = 0
    /\ embed_calls' = 0
    /\ UNCHANGED <<model_loaded, SIMILARITY_MODEL_LOADED>>

ValidateQuestionQuality ==
    /\ op = "idle"
    /\ \E question \in Questions :
         \E emb \in ValidationOracles(question) :
            /\ op' = "validate_question_quality"
            /\ args' = [question |-> question]
            /\ oracle' = emb
            /\ ret' = validate_question_quality(question, emb)
            /\ after' = [question |-> question_after_validation(question)]
            /\ embed_calls' = IF validate_encode_called(question) THEN 1 ELSE 0
    /\ generate_calls' = 0
    /\ UNCHANGED <<model_loaded, SIMILARITY_MODEL_LOADED>>

ScoreDistractorQuality ==
    /\ op = "idle"
    /\ \E options \in OptionLists, correct_answer \in Answers :
         \E emb \in (IF encode_called(SIMILARITY_MODEL_LOADED, options, correct_answer)
                     THEN EncodeOutcomes(options, correct_answer, SimValues)
                     ELSE {NotCalled}) :
            /\ op' = "score_distractor_quality"
            /\ args' = [options |-> options, correct_answer |-> correct_answer]
            /\ after' = args'
            /\ oracle' = emb
            /\ ret' = [raised |-> "none",
                       value |-> score_distractor_quality(options, correct_answer, emb)]
            /\ embed_calls' =
                 IF encode_called(SIMILARITY_MODEL_LOADED, options, correct_answer)
                 THEN 1 ELSE 0
    /\ generate_calls' = 0
    /\ UNCHANGED <<model_loaded, SIMILARITY_MODEL_LOADED>>

ValidateMultipleQuestions ==
    /\ op = "idle"
    /\ \E questions \in Batches :
         \E outcome \in [1..Len(questions) -> BOOLEAN] :
            LET embs == BatchOracle(questions, outcome)
            IN  /\ op' = "validate_multiple_questions"
                /\ args' = [questions |-> questions]
                /\ oracle' = embs
                /\ ret' = validate_multiple_questions(questions, embs)
                /\ after' = [questions |->
                               [i \in 1..Len(questions) |->
                                   question_after_validation(questions[i])]]
                /\ embed_calls' =
                     CountTrue([i \in 1..Len(questions) |->
                                   validate_encode_called(questions[i])])
    /\ generate_calls' = 0
    /\ UNCHANGED <<model_loaded, SIMILARITY_MODEL_LOADED>>

CompareText ==
    <<"C", "o", "m", "p", "a", "r", "e", " ", "m", "i", "t", "o", "s", "i", "s", " ", "a", "n",
      "d", " ", "m", "e", "i", "o", "s", "i", "s">>

UpperDesignText ==
    <<"D", "E", "S", "I", "G", "N", " ", "a", "n", "d", " ", "J", "u", "d", "g", "e", " ", "i",
      "t">>

BecauseText ==
    <<"I", "s", " ", "i", "t", " ", "s", "o", " ", "b", "e", "c", "a", "u", "s", "e", " ", "o",
      "f", " ", "h", "e", "a", "t">>

NoKeywordText ==
    <<"I", "s", " ", "A", "T", "P", " ", "a", " ", "m", "o", "l", "e", "c", "u", "l", "e">>

\* The six keyword lists in the order of the file.
bloom_keyword_lists ==
    <<remember_keywords, understand_keywords, apply_keywords, analyze_keywords,
      evaluate_keywords, create_keywords>>

\* A text holding keyword number k of each of the chosen lists.
BloomTextOf(chosen, k) ==
    join(<<" ">>, [i \in 1..Len(chosen) |-> bloom_keyword_lists[chosen[i]][k]])

\* The chosen lists in rising order.
RECURSIVE SortedSeq(_)
SortedSeq(S) ==
    IF S = {} THEN <<>>
    ELSE LET least == CHOOSE x \in S : \A y \in S : x <= y
         IN  <<least>> \o SortedSeq(S \ {least})

\* Keywords of every combination of levels, keywords of two levels at once,
\* upper case, a keyword inside another word, no keyword.
BloomTexts ==
    {BloomTextOf(SortedSeq(S), k) : S \in SUBSET (1..6), k \in {1, 5}}
    \cup {CompareText, UpperDesignText, BecauseText, NoKeywordText}

CheckBloomLevel ==
    /\ op = "idle"
    /\ \E question_text \in BloomTexts :
         /\ op' = "check_bloom_level"
         /\ args' = [question_text |-> question_text]
         /\ after' = args'
         /\ ret' = [raised |-> "none", value |-> check_bloom_level(question_text)]
    /\ oracle' = NotCalled
    /\ generate_calls' = 0
    /\ embed_calls' = 0
    /\ UNCHANGED <<model_loaded, SIMILARITY_MODEL_LOADED>>

NextValidator ==
    \/ ValidateQuestionQuality
    \/ CheckBloomLevel
    \/ ScoreDistractorQuality
    \/ ValidateMultipleQuestions
    \/ Return

SpecValidator ==
    InitValidator /\ [][NextValidator]_vars

-----------------------------------------------------------------------------
(* Inputs of the text processors *)

MaxSentences ==
    2

MitoText ==
    <<"T", "h", "e", " ", "m", "i", "t", "o", "c", "h", "o", "n", "d", "r", "i", "a", " ", "i",
      "s", " ", "t", "h", "e", " ", "p", "o", "w", "e", "r", "h", "o", "u", "s", "e", " ", "o",
      "f", " ", "t", "h", "e", " ", "c", "e", "l", "l", ".", " ", "I", "t", " ", "p", "r", "o",
      "d", "u", "c", "e", "s", " ", "A", "T", "P", " ", "t", "h", "r", "o", "u", "g", "h", " ",
      "r", "e", "s", "p", "i", "r", "a", "t", "i", "o", "n", ".">>
PunctText ==
    <<" ", " ", "H", "e", "l", "l", "o", "!", "!", " ", " ", "W", "o", "r", "l", "d", "?", "?",
      " ", "I", "t", "'", "s", " ", "a", ".", "B", " ", ".", ".", ".", "c", "@", "d", "\n",
      "(", "o", "k", ")", " ">>
StopText ==
    <<"T", "h", "e", " ", "a", "n", "d", " ", " ", "o", "f", " ", "b", "y", " ", "T", "H", "E">>
SymbolText ==
    <<"@", "#", " ", "$", "%">>
ConceptText ==
    <<"a", "l", "p", "h", "a", " ", "b", "e", "t", "a", " ", "g", "a", "m", "m", "a", " ", "d",
      "e", "l", "t", "a", " ", "a", "l", "p", "h", "a", " ", "e", "p", "s", "i", "l", "o", "n",
      " ", "z", "e", "t", "a", " ", "e", "t", "a", "2", " ", "t", "h", "e", "t", "a", " ", "i",
      "o", "t", "a", " ", "k", "a", "p", "p", "a", " ", "l", "a", "m", "b", "d", "a", " ", "o",
      "m", "i", "c", "r", "o", "n", " ", "s", "i", "g", "m", "a", " ", "b", "e", "t", "a", " ",
      "a", "l", "p", "h", "a", " ", "u", "p", "s", "i", "l", "o", "n">>

\* n one-letter words separated by single spaces
Words(n) ==
    List([k \in 1..(2 * n - 1) |-> IF k % 2 = 1 THEN "a" ELSE " "])

\* Word counts of a sentence: one word, under and at the 200 words a chunk
\* needs, between the two limits, and above the 300 words a chunk may hold.
SentenceLengths ==
    {1, 120, 200, 250, 310}

SentenceEnds ==
    <<".", "!", "?">>

\* Sentences of the given word counts, ended by . ! ? in turn.
RECURSIVE TextOfSentences(_, _)
TextOfSentences(lengths, k) ==
    IF k > Len(lengths) THEN <<>>
    ELSE (IF k > 1 THEN <<" ">> ELSE <<>>)
         \o Words(lengths[k]) \o <<SentenceEnds[((k - 1) % 3) + 1]>>
         \o TextOfSentences(lengths, k + 1)

LongTexts ==
    {TextOfSentences(lengths, 1) :
        lengths \in UNION {[1..n -> SentenceLengths] : n \in 1..MaxSentences}}

\* 199 words, one of which holds a full stop.
DottedText ==
    Words(198) \o <<" ", "x", ".", "y">>

\* A stripped character between two blanks, and runs of different marks.
StrippedBetweenText ==
    <<"c", "o", "s", "t", " ", "@", " ", "5", " ", "-", " ", "3">>

MixedMarksText ==
    <<"R", "e", "a", "l", "l", "y", "?", "!", " ", "W", "a", "i", "t", ".", ".", ".", "!", " ",
      "Y", "e", "s", ".">>

ShortTexts ==
    {<<>>, <<" ", "\n">>, MitoText, PunctText, StopText, SymbolText, ConceptText,
     StrippedBetweenText, MixedMarksText}

Texts ==
    ShortTexts \cup LongTexts \cup {DottedText}

InitText ==
    /\ model_loaded = [g \in Generators |-> FALSE]
    /\ SIMILARITY_MODEL_LOADED = FALSE
    /\ Idle

CleanText ==
    /\ op = "idle"
    /\ \E text \in Texts :
         /\ op' = "clean_text"
         /\ args' = [text |-> text]
         /\ after' = args'
         /\ ret' = [raised |-> "none", value |-> clean_text(text)]
    /\ oracle' = NotCalled
    /\ generate_calls' = 0
    /\ embed_calls' = 0
    /\ UNCHANGED <<model_loaded, SIMILARITY_MODEL_LOADED>>

PreprocessText ==
    /\ op = "idle"
    /\ \E text \in Texts :
         /\ op' = "preprocess_text"
         /\ args' = [text |-> text]
         /\ after' = args'
         /\ ret' = [raised |-> "none", value |-> preprocess_text(text)]
    /\ oracle' = NotCalled
    /\ generate_calls' = 0
    /\ embed_calls' = 0
    /\ UNCHANGED <<model_loaded, SIMILARITY_MODEL_LOADED>>

ExtractKeyConcepts ==
    /\ op = "idle"
    /\ \E text \in Texts :
         /\ op' = "extract_key_concepts"
         /\ args' = [text |-> text]
         /\ after' = args'
         /\ ret' = [raised |-> "none", value |-> extract_key_concepts(text)]
    /\ oracle' = NotCalled
    /\ generate_calls' = 0
    /\ embed_calls' = 0
    /\ UNCHANGED <<model_loaded, SIMILARITY_MODEL_LOADED>>

NextText ==
    \/ CleanText
    \/ PreprocessText
    \/ ExtractKeyConcepts
    \/ Return

SpecText ==
    InitText /\ [][NextText]_vars

-----------------------------------------------------------------------------
(* generator.py: QuestionGenerator *)

GeneratedContent ==
    <<"G", "e", "n", "e", "r", "a", "t", "e", "d", " ", "c", "o", "n", "t", "e", "n", "t">>

AlternativeOptionPrefix ==
    <<"A", "l", "t", "e", "r", "n", "a", "t", "i", "v", "e", " ", "o", "p", "t", "i", "o", "n",
      " ">>

AdditionalOptionPrefix ==
    <<"A", "d", "d", "i", "t", "i", "o", "n", "a", "l", " ", "o", "p", "t", "i", "o", "n", " ">>

MainConcept ==
    <<"m", "a", "i", "n", " ", "c", "o", "n", "c", "e", "p", "t">>

QuestionLabel ==
    <<"Q", "u", "e", "s", "t", "i", "o", "n", ":">>

QLabel ==
    <<"Q", ":">>

OptionWord ==
    <<"o", "p", "t", "i", "o", "n">>

AnswerLabel ==
    <<"a", "n", "s", "w", "e", "r", ":">>

MockSignificancePrefix ==
    <<"W", "h", "a", "t", " ", "i", "s", " ", "t", "h", "e", " ", "s", "i", "g", "n", "i", "f",
      "i", "c", "a", "n", "c", "e", " ", "o", "f", " ", "'">>

MockSignificanceSuffix ==
    <<"'", " ", "i", "n", " ", "t", "h", "e", " ", "g", "i", "v", "e", "n", " ", "c", "o", "n",
      "t", "e", "x", "t", "?">>

MockMainTopicPrefix ==
    <<"W", "h", "a", "t", " ", "i", "s", " ", "t", "h", "e", " ", "m", "a", "i", "n", " ", "t",
      "o", "p", "i", "c", " ", "d", "i", "s", "c", "u", "s", "s", "e", "d", " ", "i", "n", " ",
      "q", "u", "e", "s", "t", "i", "o", "n", " ">>

KeyConceptPrefix ==
    <<"K", "e", "y", " ", "c", "o", "n", "c", "e", "p", "t", " ", "r", "e", "l", "a", "t", "e",
      "d", " ", "t", "o", " ">>

MainTopic ==
    <<"m", "a", "i", "n", " ", "t", "o", "p", "i", "c">>

AlternativeConceptA ==
    <<"A", "l", "t", "e", "r", "n", "a", "t", "i", "v", "e", " ", "c", "o", "n", "c", "e", "p",
      "t", " ", "A">>

AlternativeConceptB ==
    <<"A", "l", "t", "e", "r", "n", "a", "t", "i", "v", "e", " ", "c", "o", "n", "c", "e", "p",
      "t", " ", "B">>

AlternativeConceptC ==
    <<"A", "l", "t", "e", "r", "n", "a", "t", "i", "v", "e", " ", "c", "o", "n", "c", "e", "p",
      "t", " ", "C">>

MockExplanation ==
    <<"B", "a", "s", "e", "d", " ", "o", "n", " ", "t", "h", "e", " ", "p", "r", "o", "v", "i",
      "d", "e", "d", " ", "t", "e", "x", "t", ",", " ", "t", "h", "e", " ", "c", "o", "r", "r",
      "e", "c", "t", " ", "a", "n", "s", "w", "e", "r", " ", "r", "e", "l", "a", "t", "e", "s",
      " ", "t", "o", " ", "t", "h", "e", " ", "m", "a", "i", "n", " ", "c", "o", "n", "c", "e",
      "p", "t", "s", " ", "d", "i", "s", "c", "u", "s", "s", "e", "d", ".">>

Medium ==
    <<"m", "e", "d", "i", "u", "m">>

Understand ==
    <<"u", "n", "d", "e", "r", "s", "t", "a", "n", "d">>


\* str.startswith(prefix)
startswith(s, prefix) ==
    /\ Len(s) >= Len(prefix)
    /\ SubSeq(s, 1, Len(prefix)) = prefix

\* str.split(): the whitespace-separated words
split(s) ==
    Runs(s, List([i \in 1..Len(s) |-> ~IsSpace(s[i])]))

\* str.strip(chars)
strip_chars(s, chars) ==
    IF \A i \in 1..Len(s) : s[i] \in chars THEN <<>>
    ELSE LET first == CHOOSE i \in 1..Len(s) :
                          s[i] \notin chars /\ \A j \in 1..(i - 1) : s[j] \in chars
             last == CHOOSE i \in 1..Len(s) :
                         s[i] \notin chars /\ \A j \in (i + 1)..Len(s) : s[j] \in chars
         IN  SubSeq(s, first, last)

\* random.shuffle(options): order is the permutation the generator drew.
shuffle(options, order) ==
    [i \in 1..Len(options) |-> options[order[i]]]

\* Mutation: what was decoded so far comes back when the call raised.
_generate_text_without_placeholder(outcome) ==
    strip(outcome.text)

\* _generate_text: the decoded output, stripped; the fixed string when the
\* tokenizer, the model or the decoder raised.
_generate_text(outcome) ==
    IF outcome.status = "raise" THEN GeneratedContent ELSE strip(outcome.text)

\* The position after the run of whitespace that starts at k.
skip_whitespace(s, k) ==
    k + Cardinality({i \in k..Len(s) : \A j \in k..i : IsSpace(s[j])})

\* re.sub(r'^(Question:|Q:)\s*', '', s)
remove_question_label(s) ==
    LET label == IF startswith(s, QuestionLabel) THEN Len(QuestionLabel)
                 ELSE IF startswith(s, QLabel) THEN Len(QLabel)
                 ELSE 0
    IN  IF label = 0 THEN s
        ELSE SubSeq(s, skip_whitespace(s, label + 1), Len(s))

\* [A-D] under re.IGNORECASE, on lower-cased text
SectionLetters ==
    {"a", "b", "c", "d"}

\* Does r'Options?:\s*[A-D]\.' match the lower-cased text low at p?
options_section_at(low, p) ==
    /\ p + Len(OptionWord) - 1 <= Len(low)
    /\ SubSeq(low, p, p + Len(OptionWord) - 1) = OptionWord
    /\ \E colon \in {p + Len(OptionWord), p + Len(OptionWord) + 1} :
          /\ colon <= Len(low)
          /\ low[colon] = ":"
          /\ colon = p + Len(OptionWord) + 1 => low[colon - 1] = "s"
          /\ LET k == skip_whitespace(low, colon + 1)
             IN  /\ k + 1 <= Len(low)
                 /\ low[k] \in SectionLetters
                 /\ low[k + 1] = "."

\* Does r'Answer:\s*[A-D]' match the lower-cased text low at p?
answer_section_at(low, p) ==
    /\ p + Len(AnswerLabel) - 1 <= Len(low)
    /\ SubSeq(low, p, p + Len(AnswerLabel) - 1) = AnswerLabel
    /\ LET k == skip_whitespace(low, p + Len(AnswerLabel))
       IN  k <= Len(low) /\ low[k] \in SectionLetters

\* re.sub(pattern + r'.*$', '', s, flags=re.IGNORECASE | re.DOTALL): s up to
\* the first of the positions where the pattern matches
cut_at_first(s, positions) ==
    IF positions = {} THEN s
    ELSE SubSeq(s, 1, (CHOOSE p \in positions : \A q \in positions : p <= q) - 1)

_clean_question_text(question_text) ==
    LET unlabelled == remove_question_label(strip(question_text))
        marked == IF endswith(unlabelled, <<"?">>) THEN unlabelled
                  ELSE unlabelled \o <<"?">>
        low == lower(marked)
        no_options ==
            cut_at_first(marked, {p \in 1..Len(marked) : options_section_at(low, p)})
        low_no_options == lower(no_options)
        no_answer ==
            cut_at_first(no_options,
                {p \in 1..Len(no_options) : answer_section_at(low_no_options, p)})
    IN  strip(no_answer)

\* f"Alternative option {i + 1}"
alternative_option(i) ==
    AlternativeOptionPrefix \o PyStr(i + 1)

\* line 146: distractor and distractor != correct_answer and distractor not in distractors
distractor_usable(distractor, correct_answer, distractors) ==
    /\ distractor # <<>>
    /\ distractor # correct_answer
    /\ ~In(distractor, distractors)

\* for i in range(3), lines 140-154. _generate_text catches whatever the
\* capability raises, so the except branch of the loop is never entered.
RECURSIVE distractor_loop(_, _, _, _)
distractor_loop(correct_answer, outcomes, i, distractors) ==
    IF i >= 3 THEN distractors
    ELSE LET distractor == strip(_generate_text(outcomes[i + 1]))
         IN  distractor_loop(correct_answer, outcomes, i + 1,
                 Append(distractors,
                        IF distractor_usable(distractor, correct_answer, distractors)
                        THEN distractor
                        ELSE alternative_option(i)))

\* while len(distractors) < 3, lines 157-158
RECURSIVE pad_distractors(_)
pad_distractors(distractors) ==
    IF Len(distractors) >= 3 THEN distractors
    ELSE pad_distractors(Append(distractors,
             AdditionalOptionPrefix \o PyStr(Len(distractors) + 1)))

_generate_enhanced_distractors(correct_answer, outcomes) ==
    SubSeq(pad_distractors(distractor_loop(correct_answer, outcomes, 0, <<>>)), 1, 3)

\* One pass of the body of 'for q_index in range(chunk_questions)', lines
\* 73-109. script holds what the capability did in the six calls of the
\* slot. bloom_level and subject_area are prompts.py's and not in the record.
question_slot(chunk_concepts, q_index, difficulty, script, order) ==
    LET concept == IF chunk_concepts # <<>>
                   THEN chunk_concepts[(q_index % Len(chunk_concepts)) + 1]
                   ELSE MainConcept
        question_text == _clean_question_text(_generate_text(script.question))
        correct_answer == strip(_generate_text(script.answer))
        distractors == _generate_enhanced_distractors(correct_answer, script.distractors)
        options == shuffle(<<correct_answer>> \o distractors, order)
        explanation == strip(_generate_text(script.explanation))
    IN  [question |-> question_text,
         options |-> options,
         correct_answer |-> correct_answer,
         explanation |-> explanation,
         difficulty |-> difficulty,
         key_concept |-> concept]

\* The slots of a call in order, lines 58-70 and 112: each chunk (counted
\* from 1) with the q_index values it is asked for. Every slot appends a
\* question, so remaining_questions goes down by one per slot.
RECURSIVE chunk_slots(_, _, _, _)
chunk_slots(chunk_count, chunk_index, questions_per_chunk, remaining_questions) ==
    IF chunk_index > chunk_count \/ remaining_questions <= 0 THEN <<>>
    ELSE LET chunk_questions == IF chunk_index = chunk_count THEN remaining_questions
                                ELSE Min(questions_per_chunk, remaining_questions)
         IN  [q \in 1..chunk_questions |-> [chunk_index |-> chunk_index, q_index |-> q - 1]]
             \o chunk_slots(chunk_count, chunk_index + 1, questions_per_chunk,
                            remaining_questions - chunk_questions)

\* lines 52 and 68: the chunks of the text and the key concepts of each chunk
chunk_concepts_of(text) ==
    LET text_chunks == preprocess_text(text)
    IN  List([c \in 1..Len(text_chunks) |-> extract_key_concepts(text_chunks[c])])

\* Mutation: the quotient is taken as it is, 0 included.
questions_per_chunk_unfloored(num_questions, chunk_count) ==
    num_questions \div chunk_count

\* questions_per_chunk = max(1, num_questions // len(text_chunks)), line 55
questions_per_chunk(num_questions, chunk_count) ==
    Max(1, num_questions \div chunk_count)

\* The slots generate_mcq runs with a loaded model, lines 55-56.
slots_of(chunk_count, num_questions) ==
    chunk_slots(chunk_count, 1, questions_per_chunk(num_questions, chunk_count),
                num_questions)

\* Mutation: a slot that raised ends the loop over its chunk (break).
q_index_after_failure_break(q_index, chunk_questions) ==
    chunk_questions

\* lines 114-116: the handler of a slot ends with continue, so the loop goes
\* on with the next q_index.
q_index_after_failure(q_index, chunk_questions) ==
    q_index + 1

\* for q_index in range(chunk_questions), lines 70-116, with the slots in
\* fails raising inside the try. locals holds questions (each question named
\* by the slot that appended it), remaining_questions and the slots attempted
\* so far.
RECURSIVE question_loop(_, _, _, _, _)
question_loop(chunk_index, q_index, chunk_questions, fails, locals) ==
    IF q_index >= chunk_questions THEN locals
    ELSE LET slot == [chunk_index |-> chunk_index, q_index |-> q_index]
             attempted == Append(locals.attempted, slot)
         IN  IF slot \in fails
             THEN question_loop(chunk_index,
                                q_index_after_failure(q_index, chunk_questions),
                                chunk_questions, fails,
                                [locals EXCEPT !.attempted = attempted])
             ELSE question_loop(chunk_index, q_index + 1, chunk_questions, fails,
                                [questions |-> Append(locals.questions, slot),
                                 remaining_questions |-> locals.remaining_questions - 1,
                                 attempted |-> attempted])

\* for chunk_index, chunk in enumerate(text_chunks), lines 58-116; chunks are
\* counted from 1.
RECURSIVE chunk_loop(_, _, _, _, _)
chunk_loop(chunk_count, chunk_index, per_chunk, fails, locals) ==
    IF chunk_index > chunk_count \/ locals.remaining_questions <= 0 THEN locals
    ELSE LET chunk_questions == IF chunk_index = chunk_count
                                THEN locals.remaining_questions
                                ELSE Min(per_chunk, locals.remaining_questions)
         IN  chunk_loop(chunk_count, chunk_index + 1, per_chunk, fails,
                        question_loop(chunk_index, 0, chunk_questions, fails, locals))

\* QuestionGenerator.generate_mcq with a loaded model, lines 55-116, for a
\* text of chunk_count chunks when the slots in fails raise.
generate_mcq_slots(chunk_count, num_questions, fails) ==
    chunk_loop(chunk_count, 1, questions_per_chunk(num_questions, chunk_count), fails,
               [questions |-> <<>>, remaining_questions |-> num_questions,
                attempted |-> <<>>])

\* Mutation: the third distractor repeats the first.
mock_distractors_repeating ==
    <<AlternativeConceptA, AlternativeConceptB, AlternativeConceptA>>

\* lines 289-293
mock_distractors ==
    <<AlternativeConceptA, AlternativeConceptB, AlternativeConceptC>>

\* [word.strip('.,!?') for word in words if len(word) > 5][:10]
key_terms_of(text) ==
    LET long_words == SelectSeq(split(text), LAMBDA word : Len(word) > 5)
        stripped == [i \in 1..Len(long_words) |->
                        strip_chars(long_words[i], {".", ",", "!", "?"})]
    IN  SubSeq(stripped, 1, Min(10, Len(stripped)))

\* QuestionGenerator._generate_mock_questions, from line 279 on: key_terms
\* is key_terms_of(text) and orders[i + 1] the shuffle of question i.
_generate_mock_questions(key_terms, num_questions, orders) ==
    LET mock(i) ==
            LET term == key_terms[(i % Len(key_terms)) + 1]
                question_text ==
                    IF key_terms # <<>>
                    THEN MockSignificancePrefix \o term \o MockSignificanceSuffix
                    ELSE MockMainTopicPrefix \o PyStr(i + 1) \o <<"?">>
                correct_answer ==
                    KeyConceptPrefix \o (IF key_terms # <<>> THEN term ELSE MainTopic)
            IN  [question |-> question_text,
                 options |-> shuffle(<<correct_answer>> \o mock_distractors, orders[i + 1]),
                 correct_answer |-> correct_answer,
                 explanation |-> MockExplanation,
                 difficulty |-> Medium,
                 bloom_level |-> Understand]
    IN  [i \in 1..Max(0, num_questions) |-> mock(i - 1)]

\* QuestionGenerator.generate_mcq with a loaded model, lines 47-123;
\* chunk_concepts is chunk_concepts_of(text).
generate_mcq_with_model(chunk_concepts, num_questions, difficulty, scripts, orders) ==
    LET slots == slots_of(Len(chunk_concepts), num_questions)
    IN  [k \in 1..Len(slots) |->
            question_slot(chunk_concepts[slots[k].chunk_index], slots[k].q_index,
                          difficulty, scripts[k], orders[k])]

\* QuestionGenerator.generate_mcq; key_terms is key_terms_of(text) and
\* chunk_concepts is chunk_concepts_of(text).
generate_mcq(loaded, key_terms, chunk_concepts, num_questions, difficulty, scripts, orders) ==
    IF ~loaded THEN _generate_mock_questions(key_terms, num_questions, orders)
    ELSE generate_mcq_with_model(chunk_concepts, num_questions, difficulty, scripts, orders)

-----------------------------------------------------------------------------
(* gemini_generator.py: GeminiQuestionGenerator *)

OptionARelatedTo ==
    <<"O", "p", "t", "i", "o", "n", " ", "A", ":", " ", "R", "e", "l", "a", "t", "e", "d", " ",
      "t", "o", " ">>

OptionBConnectedTo ==
    <<"O", "p", "t", "i", "o", "n", " ", "B", ":", " ", "C", "o", "n", "n", "e", "c", "t", "e",
      "d", " ", "t", "o", " ">>

OptionCAssociatedWith ==
    <<"O", "p", "t", "i", "o", "n", " ", "C", ":", " ", "A", "s", "s", "o", "c", "i", "a", "t",
      "e", "d", " ", "w", "i", "t", "h", " ">>

OptionDLinkedTo ==
    <<"O", "p", "t", "i", "o", "n", " ", "D", ":", " ", "L", "i", "n", "k", "e", "d", " ", "t",
      "o", " ">>

DefaultConcept ==
    <<"c", "o", "n", "c", "e", "p", "t">>

DefaultTopic ==
    <<"t", "o", "p", "i", "c">>

DefaultSubject ==
    <<"s", "u", "b", "j", "e", "c", "t">>

DefaultTheme ==
    <<"t", "h", "e", "m", "e">>

GeminiSignificancePrefix ==
    <<"W", "h", "a", "t", " ", "i", "s", " ", "t", "h", "e", " ", "s", "i", "g", "n", "i", "f",
      "i", "c", "a", "n", "c", "e", " ", "o", "f", " ">>

GeminiSignificanceSuffix ==
    <<" ", "i", "n", " ", "t", "h", "e", " ", "g", "i", "v", "e", "n", " ", "c", "o", "n", "t",
      "e", "x", "t", "?">>

GeminiMostAccurate ==
    <<"B", "a", "s", "e", "d", " ", "o", "n", " ", "t", "h", "e", " ", "t", "e", "x", "t", ",",
      " ", "w", "h", "i", "c", "h", " ", "s", "t", "a", "t", "e", "m", "e", "n", "t", " ", "i",
      "s", " ", "m", "o", "s", "t", " ", "a", "c", "c", "u", "r", "a", "t", "e", "?">>

GeminiMockExplanation ==
    <<"T", "h", "i", "s", " ", "i", "s", " ", "a", " ", "m", "o", "c", "k", " ", "e", "x", "p",
      "l", "a", "n", "a", "t", "i", "o", "n", " ", "f", "o", "r", " ", "d", "e", "m", "o", "n",
      "s", "t", "r", "a", "t", "i", "o", "n", " ", "p", "u", "r", "p", "o", "s", "e", "s", ".",
      " ", "T", "h", "e", " ", "c", "o", "r", "r", "e", "c", "t", " ", "a", "n", "s", "w", "e",
      "r", " ", "r", "e", "l", "a", "t", "e", "s", " ", "t", "o", " ", "t", "h", "e", " ", "k",
      "e", "y", " ", "c", "o", "n", "c", "e", "p", "t", "s", " ", "i", "n", " ", "t", "h", "e",
      " ", "t", "e", "x", "t", ".">>


\* Python's None, as _structure_question returns it
None ==
    [none |-> TRUE]

\* GeminiQuestionGenerator._generate_mock_questions, from line 239 on:
\* key_terms is key_terms_of(text) and picks[i + 1] the index random.choice
\* draws for question i. id, category, subject_area and created_at are not
\* in the record.
gemini_generate_mock_questions(key_terms, num_questions, picks) ==
    LET options ==
            <<OptionARelatedTo \o
                  (IF Len(key_terms) > 0 THEN key_terms[1] ELSE DefaultConcept),
              OptionBConnectedTo \o
                  (IF Len(key_terms) > 1 THEN key_terms[2] ELSE DefaultTopic),
              OptionCAssociatedWith \o
                  (IF Len(key_terms) > 2 THEN key_terms[3] ELSE DefaultSubject),
              OptionDLinkedTo \o
                  (IF Len(key_terms) > 3 THEN key_terms[4] ELSE DefaultTheme)>>
        mock(i) ==
            [question |->
                 IF key_terms # <<>>
                 THEN GeminiSignificancePrefix \o key_terms[picks[i + 1]]
                      \o GeminiSignificanceSuffix
                 ELSE GeminiMostAccurate,
             options |-> options,
             correct_answer |-> options[1],
             explanation |-> GeminiMockExplanation,
             difficulty |-> Medium,
             bloom_level |-> Understand]
    IN  [i \in 1..Max(0, num_questions) |-> mock(i - 1)]

\* lines 195-209: the three checks that make _structure_question return None
structure_rejects(q_data) ==
    \/ ~({"question", "options", "correct_answer", "explanation"} \subseteq DOMAIN q_data)
    \/ Len(q_data.options) # 4
    \/ ~In(q_data.correct_answer, q_data.options)

\* _structure_question; id, bloom_level, category, subject_area and
\* created_at are not in the record.
_structure_question(q_data, difficulty) ==
    IF structure_rejects(q_data) THEN None
    ELSE [question |-> strip(q_data.question),
          options |-> q_data.options,
          correct_answer |-> q_data.correct_answer,
          explanation |-> strip(q_data.explanation),
          difficulty |-> lower(DictGet(q_data, "difficulty", difficulty))]

\* _parse_gemini_response: the decoded JSON array, [] when none is found or
\* json.loads raises
_parse_gemini_response(response) ==
    IF response.status = "unparsable" THEN <<>> ELSE response.questions_data

\* _generate_questions_with_gemini. Its text is the list of chunks and goes
\* into the prompt only; when generate_content raises, the handler calls
\* _generate_mock_questions with that list, whose text.split() raises
\* AttributeError.
_generate_questions_with_gemini(num_questions, difficulty, response) ==
    IF response.status = "raise"
    THEN [raised |-> "AttributeError", value |-> <<>>]
    ELSE IF response.status = "empty"
    THEN [raised |-> "none", value |-> <<>>]
    ELSE LET questions_data == _parse_gemini_response(response)
             taken == SubSeq(questions_data, 1,
                             Min(Len(questions_data), Max(0, num_questions)))
             structured == [i \in 1..Len(taken) |-> _structure_question(taken[i], difficulty)]
         IN  [raised |-> "none",
              value |-> SelectSeq(structured, LAMBDA question : question # None)]

\* GeminiQuestionGenerator.generate_mcq; key_terms is key_terms_of(text).
gemini_generate_mcq(loaded, key_terms, num_questions, difficulty, response, picks) ==
    IF ~loaded THEN gemini_generate_mock_questions(key_terms, num_questions, picks)
    ELSE LET questions == _generate_questions_with_gemini(
                 num_questions, lower(difficulty), response)
         IN  IF questions.raised # "none"
             THEN gemini_generate_mock_questions(key_terms, num_questions, picks)
             ELSE questions.value

-----------------------------------------------------------------------------
(* Inputs of the generators *)

MaxQuestions ==
    2

ShortWordsText ==
    <<"a", " ", "b", "b", " ", "c", "c", "c", ".">>

PunctWordText ==
    <<".", ".", ".", ".", ".", ".", " ", "p", "l", "a", "n", "e", "t", "!">>

Easy ==
    <<"e", "a", "s", "y">>

HardCapital ==
    <<"H", "a", "r", "d">>

RawQuestion ==
    <<"Q", ":", " ", "W", "h", "a", "t", " ", "i", "s", " ", "A", "T", "P">>

PaddedRome ==
    <<" ", "R", "o", "m", "e", " ">>

AlternativeOption1 ==
    <<"A", "l", "t", "e", "r", "n", "a", "t", "i", "v", "e", " ", "o", "p", "t", "i", "o", "n",
      " ", "1">>

AlternativeOption2 ==
    <<"A", "l", "t", "e", "r", "n", "a", "t", "i", "v", "e", " ", "o", "p", "t", "i", "o", "n",
      " ", "2">>


\* A text of two sentences of 250 words: two chunks.
TwoChunkText ==
    TextOfSentences(<<250, 250>>, 1)

GeneratorTexts ==
    <<<<>>, ShortWordsText, PunctWordText, MitoText, TwoChunkText>>

\* Each text with what the generators compute from the text alone.
GeneratorInputs ==
    List([i \in 1..Len(GeneratorTexts) |->
             [text |-> GeneratorTexts[i],
              key_terms |-> key_terms_of(GeneratorTexts[i]),
              chunk_concepts |-> chunk_concepts_of(GeneratorTexts[i])]])

Difficulties ==
    {Easy, HardCapital}

\* What the generation capability does in one call: text it decodes to, or
\* an exception.
Generated(text) ==
    [status |-> "ok", text |-> text]

Raises ==
    [status |-> "raise", text |-> <<>>]

\* Generated answers: a padded string, a string equal to a fallback label,
\* an exception.
AnswerOutcomes ==
    {Generated(PaddedRome), Generated(AlternativeOption1), Raises}

\* Generated distractors: the empty string, a string that repeats or equals
\* the answer, a string equal to a fallback label, an exception.
DistractorOutcomes ==
    {Generated(<<>>), Generated(Rome), Generated(AlternativeOption2), Raises}

\* The six calls of a slot: every combination of answer and distractors
\* with a generated question and explanation, and the slot where all six
\* calls raise.
SlotScripts ==
    {[question |-> Generated(RawQuestion), answer |-> a, distractors |-> <<d1, d2, d3>>,
      explanation |-> Generated(ExplLong)] :
        a \in AnswerOutcomes,
        d1 \in DistractorOutcomes, d2 \in DistractorOutcomes, d3 \in DistractorOutcomes}
    \cup {[question |-> Raises, answer |-> Raises, distractors |-> <<Raises, Raises, Raises>>,
           explanation |-> Raises]}

\* The orders random.shuffle is let to draw: the options as they are, and
\* rotated by one.
ShuffleOrders ==
    {[i \in 1..4 |-> ((i + r - 1) % 4) + 1] : r \in 0..1}

\* Records a decoded Gemini response may hold: a well-formed one, one with a
\* repeated option, one with 3 options, one whose answer is no option, one
\* without explanation.
GeminiRecords ==
    {GoodQuestion,
     [GoodQuestion EXCEPT !.options = DuplicateScenario],
     [GoodQuestion EXCEPT !.options = <<Paris, London, Berlin>>],
     [GoodQuestion EXCEPT !.correct_answer = Madrid],
     [k \in {"question", "options", "correct_answer"} |-> GoodQuestion[k]]}

GeminiResponses ==
    {[status |-> s, questions_data |-> <<>>] : s \in {"raise", "empty", "unparsable"}}
    \cup {[status |-> "ok", questions_data |-> questions_data] :
            questions_data \in UNION {[1..n -> GeminiRecords] : n \in 0..MaxQuestions}}

NoResponse ==
    [status |-> "not called", questions_data |-> <<>>]

\* Mutation: a call made without the model loads it again and succeeds.
model_loaded_after_retry(loaded) ==
    TRUE

\* self.model_loaded after generate_mcq: the method tests the flag (generator.py
\* line 44, gemini_generator.py line 63) and never assigns it; load_model is
\* called by __init__ alone.
model_loaded_after_generate(loaded) ==
    loaded

\* generator.__init__ and gemini_generator.__init__ ran load_model, which
\* left each model_loaded set or not.
InitGenerator ==
    /\ model_loaded \in [Generators -> BOOLEAN]
    /\ SIMILARITY_MODEL_LOADED = FALSE
    /\ Idle

QuestionGeneratorGenerateMcq ==
    /\ op = "idle"
    /\ \E input \in Range(GeneratorInputs), num_questions \in 0..MaxQuestions,
          difficulty \in Difficulties, order \in ShuffleOrders :
         LET loaded == model_loaded["QuestionGenerator"]
             slots == IF loaded
                      THEN Len(slots_of(Len(input.chunk_concepts), num_questions))
                      ELSE 0
         IN  \E script \in (IF slots > 0 THEN SlotScripts ELSE {Raises}) :
                LET scripts == [k \in 1..slots |-> script]
                    orders == [k \in 1..num_questions |-> order]
                IN  /\ op' = "QuestionGenerator.generate_mcq"
                    /\ args' = [text |-> input.text, num_questions |-> num_questions,
                                difficulty |-> difficulty]
                    /\ after' = args'
                    /\ oracle' = [scripts |-> scripts, orders |-> orders]
                    /\ ret' = [raised |-> "none",
                               value |-> generate_mcq(loaded, input.key_terms,
                                                      input.chunk_concepts, num_questions,
                                                      difficulty, scripts, orders)]
                    /\ generate_calls' = (1 + 1 + 3 + 1) * slots
    /\ embed_calls' = 0
    /\ model_loaded' = [model_loaded EXCEPT
                         !["QuestionGenerator"] = model_loaded_after_generate(@)]
    /\ UNCHANGED SIMILARITY_MODEL_LOADED

GeminiGenerateMcq ==
    /\ op = "idle"
    /\ \E input \in Range(GeneratorInputs), num_questions \in 0..MaxQuestions,
          difficulty \in Difficulties :
         LET loaded == model_loaded["GeminiQuestionGenerator"]
         IN  \E response \in (IF loaded THEN GeminiResponses ELSE {NoResponse}),
                picks \in [1..num_questions -> 1..Max(1, Len(input.key_terms))] :
                /\ op' = "GeminiQuestionGenerator.generate_mcq"
                /\ args' = [text |-> input.text, num_questions |-> num_questions,
                            difficulty |-> difficulty]
                /\ after' = args'
                /\ oracle' = [response |-> response, picks |-> picks]
                /\ ret' = [raised |-> "none",
                           value |-> gemini_generate_mcq(loaded, input.key_terms, num_questions,
                                                         difficulty, response, picks)]
                /\ generate_calls' = IF loaded THEN 1 ELSE 0
    /\ embed_calls' = 0
    /\ model_loaded' = [model_loaded EXCEPT
                         !["GeminiQuestionGenerator"] = model_loaded_after_generate(@)]
    /\ UNCHANGED SIMILARITY_MODEL_LOADED

NextGenerator ==
    \/ QuestionGeneratorGenerateMcq
    \/ GeminiGenerateMcq
    \/ Return

SpecGenerator ==
    InitGenerator /\ [][NextGenerator]_vars

-----------------------------------------------------------------------------
(* prompts.py *)

\* QUESTION_PROMPT, as the pieces str.format sees: literal text, then the
\* field that follows it (none after the last piece)
QUESTION_PROMPT ==
    <<
      [literal |->
          <<"C", "r", "e", "a", "t", "e", " ", "a", " ", "m", "u", "l", "t", "i", "p", "l",
            "e", " ", "c", "h", "o", "i", "c", "e", " ", "q", "u", "e", "s", "t", "i", "o",
            "n", " ", "t", "e", "s", "t", "i", "n", "g", " ", "u", "n", "d", "e", "r", "s",
            "t", "a", "n", "d", "i", "n", "g", " ", "o", "f", ":", " ">>,
       field |-> "text"]>>

\* DISTRACTOR_PROMPT
DISTRACTOR_PROMPT ==
    <<
      [literal |->
          <<"G", "e", "n", "e", "r", "a", "t", "e", " ", "3", " ", "i", "n", "c", "o", "r",
            "r", "e", "c", "t", " ", "b", "u", "t", " ", "p", "l", "a", "u", "s", "i", "b",
            "l", "e", " ", "a", "n", "s", "w", "e", "r", "s", " ", "f", "o", "r", ":", " ">>,
       field |-> "correct_answer"],
      [literal |->
          <<" ", "C", "o", "n", "t", "e", "x", "t", ":", " ">>,
       field |-> "context"]>>

\* EXPLANATION_PROMPT
EXPLANATION_PROMPT ==
    <<
      [literal |->
          <<"E", "x", "p", "l", "a", "i", "n", " ", "w", "h", "y", " ">>,
       field |-> "answer"],
      [literal |->
          <<" ", "i", "s", " ", "c", "o", "r", "r", "e", "c", "t", " ", "f", "o", "r", " ",
            "q", "u", "e", "s", "t", "i", "o", "n", ":", " ">>,
       field |-> "question"]>>

\* ENHANCED_QUESTION_PROMPTS, without the instructions no function reads
ENHANCED_QUESTION_PROMPTS ==
    (<<"e", "a", "s", "y">> :>
        [template |->
            <<
              [literal |->
                  <<"C", "r", "e", "a", "t", "e", " ", "a", " ", "s", "i", "m", "p", "l", "e",
                    " ", "m", "u", "l", "t", "i", "p", "l", "e", " ", "c", "h", "o", "i", "c",
                    "e", " ", "q", "u", "e", "s", "t", "i", "o", "n", " ", "t", "h", "a", "t",
                    " ", "t", "e", "s", "t", "s", " ">>,
               field |-> "focus"],
              [literal |->
                  <<" ", "f", "r", "o", "m", " ", "t", "h", "i", "s", " ", "t", "e", "x", "t",
                    ":", " ">>,
               field |-> "text"]>>,
         focus |->
            <<"b", "a", "s", "i", "c", " ", "f", "a", "c", "t", "s", " ", "a", "n", "d", " ",
              "r", "e", "c", "a", "l", "l">>,
         bloom_levels |->
            <<<<"R", "e", "m", "e", "m", "b", "e", "r">>,
              <<"U", "n", "d", "e", "r", "s", "t", "a", "n", "d">>>>])
    @@
    (<<"m", "e", "d", "i", "u", "m">> :>
        [template |->
            <<
              [literal |->
                  <<"C", "r", "e", "a", "t", "e", " ", "a", " ", "m", "u", "l", "t", "i", "p",
                    "l", "e", " ", "c", "h", "o", "i", "c", "e", " ", "q", "u", "e", "s", "t",
                    "i", "o", "n", " ", "t", "h", "a", "t", " ", "t", "e", "s", "t", "s", " ">>,
               field |-> "focus"],
              [literal |->
                  <<" ", "f", "r", "o", "m", " ", "t", "h", "i", "s", " ", "t", "e", "x", "t",
                    ":", " ">>,
               field |-> "text"]>>,
         focus |->
            <<"c", "o", "n", "c", "e", "p", "t", "u", "a", "l", " ", "u", "n", "d", "e", "r",
              "s", "t", "a", "n", "d", "i", "n", "g", " ", "a", "n", "d", " ", "a", "p", "p",
              "l", "i", "c", "a", "t", "i", "o", "n">>,
         bloom_levels |->
            <<<<"U", "n", "d", "e", "r", "s", "t", "a", "n", "d">>,
              <<"A", "p", "p", "l", "y">>>>])
    @@
    (<<"h", "a", "r", "d">> :>
        [template |->
            <<
              [literal |->
                  <<"C", "r", "e", "a", "t", "e", " ", "a", " ", "c", "h", "a", "l", "l", "e",
                    "n", "g", "i", "n", "g", " ", "m", "u", "l", "t", "i", "p", "l", "e", " ",
                    "c", "h", "o", "i", "c", "e", " ", "q", "u", "e", "s", "t", "i", "o", "n",
                    " ", "t", "h", "a", "t", " ", "t", "e", "s", "t", "s", " ">>,
               field |-> "focus"],
              [literal |->
                  <<" ", "f", "r", "o", "m", " ", "t", "h", "i", "s", " ", "t", "e", "x", "t",
                    ":", " ">>,
               field |-> "text"]>>,
         focus |->
            <<"c", "r", "i", "t", "i", "c", "a", "l", " ", "a", "n", "a", "l", "y", "s", "i",
              "s", " ", "a", "n", "d", " ", "e", "v", "a", "l", "u", "a", "t", "i", "o", "n">>,
         bloom_levels |->
            <<<<"A", "n", "a", "l", "y", "z", "e">>,
              <<"E", "v", "a", "l", "u", "a", "t", "e">>,
              <<"C", "r", "e", "a", "t", "e">>>>])
    @@
    (<<"m", "i", "x", "e", "d">> :>
        [template |->
            <<
              [literal |->
                  <<"C", "r", "e", "a", "t", "e", " ", "m", "u", "l", "t", "i", "p", "l", "e",
                    " ", "c", "h", "o", "i", "c", "e", " ", "q", "u", "e", "s", "t", "i", "o",
                    "n", "s", " ", "t", "h", "a", "t", " ", "t", "e", "s", "t", " ">>,
               field |-> "focus"],
              [literal |->
                  <<" ", "f", "r", "o", "m", " ", "t", "h", "i", "s", " ", "t", "e", "x", "t",
                    ":", " ">>,
               field |-> "text"]>>,
         focus |->
            <<"v", "a", "r", "i", "o", "u", "s", " ", "c", "o", "g", "n", "i", "t", "i", "v",
              "e", " ", "l", "e", "v", "e", "l", "s", " ", "f", "r", "o", "m", " ", "b", "a",
              "s", "i", "c", " ", "r", "e", "c", "a", "l", "l", " ", "t", "o", " ", "c", "r",
              "i", "t", "i", "c", "a", "l", " ", "a", "n", "a", "l", "y", "s", "i", "s">>,
         bloom_levels |->
            <<<<"R", "e", "m", "e", "m", "b", "e", "r">>,
              <<"U", "n", "d", "e", "r", "s", "t", "a", "n", "d">>,
              <<"A", "p", "p", "l", "y">>,
              <<"A", "n", "a", "l", "y", "z", "e">>>>])

\* ENHANCED_DISTRACTOR_PROMPTS
ENHANCED_DISTRACTOR_PROMPTS ==
    (<<"c", "o", "n", "c", "e", "p", "t", "u", "a", "l">> :>
        <<
          [literal |->
              <<"G", "e", "n", "e", "r", "a", "t", "e", " ", "3", " ", "i", "n", "c", "o", "r",
                "r", "e", "c", "t", " ", "b", "u", "t", " ", "c", "o", "n", "c", "e", "p", "t",
                "u", "a", "l", "l", "y", " ", "r", "e", "l", "a", "t", "e", "d", " ", "a", "n",
                "s", "w", "e", "r", "s", " ", "f", "o", "r", " ", "'">>,
           field |-> "correct_answer"],
          [literal |->
              <<"'", ".", " ", "M", "a", "k", "e", " ", "t", "h", "e", "m", " ", "p", "l", "a",
                "u", "s", "i", "b", "l", "e", " ", "b", "u", "t", " ", "c", "l", "e", "a", "r",
                "l", "y", " ", "w", "r", "o", "n", "g", " ", "w", "h", "e", "n", " ", "a", "n",
                "a", "l", "y", "z", "e", "d", ".", " ", "C", "o", "n", "t", "e", "x", "t", ":",
                " ">>,
           field |-> "context"]>>)
    @@
    (<<"f", "a", "c", "t", "u", "a", "l">> :>
        <<
          [literal |->
              <<"G", "e", "n", "e", "r", "a", "t", "e", " ", "3", " ", "i", "n", "c", "o", "r",
                "r", "e", "c", "t", " ", "b", "u", "t", " ", "f", "a", "c", "t", "u", "a", "l",
                "l", "y", " ", "s", "i", "m", "i", "l", "a", "r", " ", "a", "n", "s", "w", "e",
                "r", "s", " ", "f", "o", "r", " ", "'">>,
           field |-> "correct_answer"],
          [literal |->
              <<"'", ".", " ", "U", "s", "e", " ", "r", "e", "l", "a", "t", "e", "d", " ", "n",
                "u", "m", "b", "e", "r", "s", ",", " ", "d", "a", "t", "e", "s", ",", " ", "o",
                "r", " ", "n", "a", "m", "e", "s", " ", "t", "h", "a", "t", " ", "c", "o", "u",
                "l", "d", " ", "c", "o", "n", "f", "u", "s", "e", " ", "s", "t", "u", "d", "e",
                "n", "t", "s", ".", " ", "C", "o", "n", "t", "e", "x", "t", ":", " ">>,
           field |-> "context"]>>)
    @@
    (<<"a", "n", "a", "l", "y", "t", "i", "c", "a", "l">> :>
        <<
          [literal |->
              <<"G", "e", "n", "e", "r", "a", "t", "e", " ", "3", " ", "i", "n", "c", "o", "r",
                "r", "e", "c", "t", " ", "b", "u", "t", " ", "l", "o", "g", "i", "c", "a", "l",
                "l", "y", " ", "s", "t", "r", "u", "c", "t", "u", "r", "e", "d", " ", "a", "n",
                "s", "w", "e", "r", "s", " ", "f", "o", "r", " ", "'">>,
           field |-> "correct_answer"],
          [literal |->
              <<"'", ".", " ", "M", "a", "k", "e", " ", "t", "h", "e", "m", " ", "s", "o", "u",
                "n", "d", " ", "r", "e", "a", "s", "o", "n", "a", "b", "l", "e", " ", "b", "u",
                "t", " ", "c", "o", "n", "t", "a", "i", "n", " ", "s", "u", "b", "t", "l", "e",
                " ", "e", "r", "r", "o", "r", "s", ".", " ", "C", "o", "n", "t", "e", "x", "t",
                ":", " ">>,
           field |-> "context"]>>)

\* ENHANCED_EXPLANATION_PROMPTS
ENHANCED_EXPLANATION_PROMPTS ==
    (<<"b", "a", "s", "i", "c">> :>
        <<
          [literal |->
              <<"P", "r", "o", "v", "i", "d", "e", " ", "a", " ", "c", "l", "e", "a", "r", ",",
                " ", "s", "i", "m", "p", "l", "e", " ", "e", "x", "p", "l", "a", "n", "a", "t",
                "i", "o", "n", " ", "f", "o", "r", " ", "w", "h", "y", " ", "'">>,
           field |-> "answer"],
          [literal |->
              <<"'", " ", "i", "s", " ", "t", "h", "e", " ", "c", "o", "r", "r", "e", "c", "t",
                " ", "a", "n", "s", "w", "e", "r", " ", "t", "o", " ", "t", "h", "e", " ", "q",
                "u", "e", "s", "t", "i", "o", "n", ":", " ", "'">>,
           field |-> "question"],
          [literal |->
              <<"'", ".", " ", "R", "e", "f", "e", "r", "e", "n", "c", "e", " ", "t", "h", "e",
                " ", "s", "o", "u", "r", "c", "e", " ", "t", "e", "x", "t", ".">>,
           field |-> ""]>>)
    @@
    (<<"d", "e", "t", "a", "i", "l", "e", "d">> :>
        <<
          [literal |->
              <<"P", "r", "o", "v", "i", "d", "e", " ", "a", " ", "c", "o", "m", "p", "r", "e",
                "h", "e", "n", "s", "i", "v", "e", " ", "e", "x", "p", "l", "a", "n", "a", "t",
                "i", "o", "n", " ", "f", "o", "r", " ", "w", "h", "y", " ", "'">>,
           field |-> "answer"],
          [literal |->
              <<"'", " ", "i", "s", " ", "c", "o", "r", "r", "e", "c", "t", " ", "f", "o", "r",
                ":", " ", "'">>,
           field |-> "question"],
          [literal |->
              <<"'", ".", " ", "I", "n", "c", "l", "u", "d", "e", " ", "r", "e", "l", "e", "v",
                "a", "n", "t", " ", "c", "o", "n", "t", "e", "x", "t", " ", "a", "n", "d", " ",
                "e", "x", "p", "l", "a", "i", "n", " ", "w", "h", "y", " ", "o", "t", "h", "e",
                "r", " ", "o", "p", "t", "i", "o", "n", "s", " ", "a", "r", "e", " ", "i", "n",
                "c", "o", "r", "r", "e", "c", "t", ".">>,
           field |-> ""]>>)
    @@
    (<<"a", "n", "a", "l", "y", "t", "i", "c", "a", "l">> :>
        <<
          [literal |->
              <<"P", "r", "o", "v", "i", "d", "e", " ", "a", "n", " ", "a", "n", "a", "l", "y",
                "t", "i", "c", "a", "l", " ", "e", "x", "p", "l", "a", "n", "a", "t", "i", "o",
                "n", " ", "f", "o", "r", " ", "w", "h", "y", " ", "'">>,
           field |-> "answer"],
          [literal |->
              <<"'", " ", "i", "s", " ", "t", "h", "e", " ", "b", "e", "s", "t", " ", "a", "n",
                "s", "w", "e", "r", " ", "t", "o", ":", " ", "'">>,
           field |-> "question"],
          [literal |->
              <<"'", ".", " ", "D", "i", "s", "c", "u", "s", "s", " ", "t", "h", "e", " ", "r",
                "e", "a", "s", "o", "n", "i", "n", "g", " ", "p", "r", "o", "c", "e", "s", "s",
                " ", "a", "n", "d", " ", "k", "e", "y", " ", "c", "o", "n", "c", "e", "p", "t",
                "s", " ", "i", "n", "v", "o", "l", "v", "e", "d", ".">>,
           field |-> ""]>>)

\* detect_subject_area: science_keywords
science_keywords ==
    <<<<"e", "x", "p", "e", "r", "i", "m", "e", "n", "t">>,
      <<"h", "y", "p", "o", "t", "h", "e", "s", "i", "s">>,
      <<"t", "h", "e", "o", "r", "y">>,
      <<"a", "n", "a", "l", "y", "s", "i", "s">>,
      <<"s", "c", "i", "e", "n", "t", "i", "f", "i", "c">>,
      <<"r", "e", "s", "e", "a", "r", "c", "h">>,
      <<"s", "t", "u", "d", "y">>,
      <<"d", "a", "t", "a">>,
      <<"o", "b", "s", "e", "r", "v", "a", "t", "i", "o", "n">>,
      <<"m", "e", "t", "h", "o", "d">>>>

\* detect_subject_area: history_keywords
history_keywords ==
    <<<<"c", "e", "n", "t", "u", "r", "y">>,
      <<"w", "a", "r">>,
      <<"e", "m", "p", "i", "r", "e">>,
      <<"h", "i", "s", "t", "o", "r", "i", "c", "a", "l">>,
      <<"p", "e", "r", "i", "o", "d">>,
      <<"e", "r", "a">>,
      <<"a", "n", "c", "i", "e", "n", "t">>,
      <<"r", "e", "v", "o", "l", "u", "t", "i", "o", "n">>,
      <<"s", "o", "c", "i", "e", "t", "y">>,
      <<"c", "i", "v", "i", "l", "i", "z", "a", "t", "i", "o", "n">>>>

\* detect_subject_area: literature_keywords
literature_keywords ==
    <<<<"c", "h", "a", "r", "a", "c", "t", "e", "r">>,
      <<"t", "h", "e", "m", "e">>,
      <<"p", "l", "o", "t">>,
      <<"a", "u", "t", "h", "o", "r">>,
      <<"l", "i", "t", "e", "r", "a", "r", "y">>,
      <<"n", "o", "v", "e", "l">>,
      <<"s", "t", "o", "r", "y">>,
      <<"p", "o", "e", "m">>,
      <<"n", "a", "r", "r", "a", "t", "i", "v", "e">>,
      <<"s", "y", "m", "b", "o", "l", "i", "s", "m">>>>

BloomUnderstand ==
    <<"U", "n", "d", "e", "r", "s", "t", "a", "n", "d">>

SubjectScience ==
    <<"s", "c", "i", "e", "n", "c", "e">>

SubjectHistory ==
    <<"h", "i", "s", "t", "o", "r", "y">>

SubjectLiterature ==
    <<"l", "i", "t", "e", "r", "a", "t", "u", "r", "e">>

SubjectGeneral ==
    <<"g", "e", "n", "e", "r", "a", "l">>

\* str.format(**kwargs) on a template without format specs: each field is
\* replaced by its argument, which is not scanned again.
RECURSIVE format(_, _)
format(template, kwargs) ==
    IF template = <<>> THEN <<>>
    ELSE template[1].literal
         \o (IF template[1].field = "" THEN <<>> ELSE kwargs[template[1].field])
         \o format(Tail(template), kwargs)

\* Mutation: the difficulty is looked up as it was given.
normalize_difficulty_as_given(difficulty) ==
    difficulty

\* difficulty = difficulty.lower(), lines 119 and 131
normalize_difficulty(difficulty) ==
    lower(difficulty)

get_difficulty_prompt(difficulty_arg, text) ==
    LET difficulty == normalize_difficulty(difficulty_arg)
    IN  IF difficulty \in DOMAIN ENHANCED_QUESTION_PROMPTS
        THEN LET prompt_config == ENHANCED_QUESTION_PROMPTS[difficulty]
             IN  format(prompt_config.template,
                        [focus |-> prompt_config.focus, text |-> text])
        ELSE format(QUESTION_PROMPT, [text |-> text])

get_bloom_level_for_difficulty(difficulty_arg) ==
    LET difficulty == normalize_difficulty(difficulty_arg)
    IN  IF difficulty \in DOMAIN ENHANCED_QUESTION_PROMPTS
        THEN ENHANCED_QUESTION_PROMPTS[difficulty].bloom_levels[1]
        ELSE BloomUnderstand

get_distractor_prompt(distractor_type, correct_answer, context) ==
    IF distractor_type \in DOMAIN ENHANCED_DISTRACTOR_PROMPTS
    THEN format(ENHANCED_DISTRACTOR_PROMPTS[distractor_type],
                [correct_answer |-> correct_answer, context |-> context])
    ELSE format(DISTRACTOR_PROMPT,
                [correct_answer |-> correct_answer, context |-> context])

get_explanation_prompt(explanation_type, answer, question) ==
    IF explanation_type \in DOMAIN ENHANCED_EXPLANATION_PROMPTS
    THEN format(ENHANCED_EXPLANATION_PROMPTS[explanation_type],
                [answer |-> answer, question |-> question])
    ELSE format(EXPLANATION_PROMPT, [answer |-> answer, question |-> question])

\* sum(1 for keyword in keywords if keyword in text_lower)
keyword_count(keywords, text_lower) ==
    Cardinality({i \in 1..Len(keywords) : Contains(text_lower, keywords[i])})

\* Mutation: history is tried before science.
subject_of_counts_history_first(science_count, history_count, literature_count) ==
    LET max_count == Max(science_count, Max(history_count, literature_count))
    IN  IF max_count >= 2
        THEN IF history_count = max_count THEN SubjectHistory
             ELSE IF science_count = max_count THEN SubjectScience
             ELSE SubjectLiterature
        ELSE SubjectGeneral

\* detect_subject_area, lines 175-185
subject_of_counts(science_count, history_count, literature_count) ==
    LET max_count == Max(science_count, Max(history_count, literature_count))
    IN  IF max_count >= 2
        THEN IF science_count = max_count THEN SubjectScience
             ELSE IF history_count = max_count THEN SubjectHistory
             ELSE IF literature_count = max_count THEN SubjectLiterature
             ELSE SubjectGeneral
        ELSE SubjectGeneral

detect_subject_area(text) ==
    LET text_lower == lower(text)
    IN  subject_of_counts(keyword_count(science_keywords, text_lower),
                          keyword_count(history_keywords, text_lower),
                          keyword_count(literature_keywords, text_lower))

-----------------------------------------------------------------------------
(* Inputs of the prompt builders *)

\* How many keywords of each domain a composed text holds at most.
MaxKeywords ==
    2

UpperWarText ==
    <<"T", "h", "e", " ", "W", "A", "R", " ", "e", "n", "d", "e", "d", " ", "t", "h", "e", " ",
      "R", "o", "m", "a", "n", " ", "E", "M", "P", "I", "R", "E">>

SubstringText ==
    <<"w", "a", "r", "m", " ", "o", "p", "e", "r", "a", "s", " ", "o", "n", " ", "s", "e", "v",
      "e", "r", "a", "l", " ", "c", "a", "m", "e", "r", "a", "s">>

LiteraryText ==
    <<"a", " ", "l", "i", "t", "e", "r", "a", "r", "y", " ", "n", "a", "r", "r", "a", "t", "i",
      "v", "e">>

RepeatedKeywordText ==
    <<"d", "a", "t", "a", " ", "d", "a", "t", "a", " ", "d", "a", "t", "a", " ", "d", "a", "t",
      "a">>

TheoryOfWarText ==
    <<"t", "h", "e", "o", "r", "y", " ", "a", "n", "d", " ", "d", "a", "t", "a", " ", "o", "f",
      " ", "w", "a", "r", " ", "i", "n", " ", "a", "n", " ", "a", "n", "c", "i", "e", "n", "t",
      " ", "e", "m", "p", "i", "r", "e">>

EasyUpper ==
    <<"E", "A", "S", "Y">>

Hard ==
    <<"h", "a", "r", "d">>

Mixed ==
    <<"m", "i", "x", "e", "d">>

MixedCase ==
    <<"M", "i", "X", "e", "D">>

Expert ==
    <<"e", "x", "p", "e", "r", "t">>

BracesText ==
    <<"{", "t", "e", "x", "t", "}", " ", "{", "f", "o", "c", "u", "s", "}">>

Conceptual ==
    <<"c", "o", "n", "c", "e", "p", "t", "u", "a", "l">>

Factual ==
    <<"f", "a", "c", "t", "u", "a", "l">>

Analytical ==
    <<"a", "n", "a", "l", "y", "t", "i", "c", "a", "l">>

ConceptualCapital ==
    <<"C", "o", "n", "c", "e", "p", "t", "u", "a", "l">>

UnknownKind ==
    <<"o", "t", "h", "e", "r">>

Basic ==
    <<"b", "a", "s", "i", "c">>

Detailed ==
    <<"d", "e", "t", "a", "i", "l", "e", "d">>

BasicCapital ==
    <<"B", "a", "s", "i", "c">>

BracesAnswer ==
    <<"{", "c", "o", "n", "t", "e", "x", "t", "}">>

\* A text holding the first s science keywords, the first h history keywords
\* and the first l literature keywords.
SubjectTextOf(s, h, l) ==
    join(<<" ">>, SubSeq(science_keywords, 1, s) \o SubSeq(history_keywords, 1, h)
                  \o SubSeq(literature_keywords, 1, l))

ComposedSubjectTexts ==
    {SubjectTextOf(s, h, l) : s \in 0..MaxKeywords, h \in 0..MaxKeywords,
                              l \in 0..MaxKeywords}

\* Upper case, keywords inside other words, a keyword repeated.
SubjectTexts ==
    ComposedSubjectTexts
    \cup {UpperWarText, SubstringText, LiteraryText, RepeatedKeywordText,
          TheoryOfWarText, MitoText}

PromptDifficulties ==
    {Easy, EasyUpper, Medium, Hard, HardCapital, Mixed, MixedCase, Expert, <<>>}

PromptTexts ==
    {<<>>, ShortWordsText, BracesText, RawQuestion}

DistractorTypes ==
    {Conceptual, Factual, Analytical, ConceptualCapital, UnknownKind}

ExplanationTypes ==
    {Basic, Detailed, Analytical, BasicCapital, UnknownKind}

PromptAnswers ==
    {Paris, BracesAnswer}

InitPrompts ==
    /\ model_loaded = [g \in Generators |-> FALSE]
    /\ SIMILARITY_MODEL_LOADED = FALSE
    /\ Idle

\* detect_subject_area(text), called twice on the same text.
DetectSubjectArea ==
    /\ op = "idle"
    /\ \E text \in SubjectTexts :
         /\ op' = "detect_subject_area"
         /\ args' = [text |-> text]
         /\ after' = args'
         /\ ret' = [raised |-> "none",
                    value |-> detect_subject_area(text),
                    again |-> detect_subject_area(text)]
    /\ oracle' = NotCalled
    /\ generate_calls' = 0
    /\ embed_calls' = 0
    /\ UNCHANGED <<model_loaded, SIMILARITY_MODEL_LOADED>>

GetDifficultyPrompt ==
    /\ op = "idle"
    /\ \E difficulty \in PromptDifficulties, text \in PromptTexts :
         /\ op' = "get_difficulty_prompt"
         /\ args' = [difficulty |-> difficulty, text |-> text]
         /\ after' = args'
         /\ ret' = [raised |-> "none", value |-> get_difficulty_prompt(difficulty, text)]
    /\ oracle' = NotCalled
    /\ generate_calls' = 0
    /\ embed_calls' = 0
    /\ UNCHANGED <<model_loaded, SIMILARITY_MODEL_LOADED>>

GetBloomLevelForDifficulty ==
    /\ op = "idle"
    /\ \E difficulty \in PromptDifficulties :
         /\ op' = "get_bloom_level_for_difficulty"
         /\ args' = [difficulty |-> difficulty]
         /\ after' = args'
         /\ ret' = [raised |-> "none", value |-> get_bloom_level_for_difficulty(difficulty)]
    /\ oracle' = NotCalled
    /\ generate_calls' = 0
    /\ embed_calls' = 0
    /\ UNCHANGED <<model_loaded, SIMILARITY_MODEL_LOADED>>

GetDistractorPrompt ==
    /\ op = "idle"
    /\ \E distractor_type \in DistractorTypes, correct_answer \in PromptAnswers,
          context \in PromptTexts :
         /\ op' = "get_distractor_prompt"
         /\ args' = [distractor_type |-> distractor_type,
                     correct_answer |-> correct_answer, context |-> context]
         /\ after' = args'
         /\ ret' = [raised |-> "none",
                    value |-> get_distractor_prompt(distractor_type, correct_answer, context)]
    /\ oracle' = NotCalled
    /\ generate_calls' = 0
    /\ embed_calls' = 0
    /\ UNCHANGED <<model_loaded, SIMILARITY_MODEL_LOADED>>

GetExplanationPrompt ==
    /\ op = "idle"
    /\ \E explanation_type \in ExplanationTypes, answer \in PromptAnswers,
          question \in PromptTexts :
         /\ op' = "get_explanation_prompt"
         /\ args' = [explanation_type |-> explanation_type,
                     answer |-> answer, question |-> question]
         /\ after' = args'
         /\ ret' = [raised |-> "none",
                    value |-> get_explanation_prompt(explanation_type, answer, question)]
    /\ oracle' = NotCalled
    /\ generate_calls' = 0
    /\ embed_calls' = 0
    /\ UNCHANGED <<model_loaded, SIMILARITY_MODEL_LOADED>>

NextPrompts ==
    \/ DetectSubjectArea
    \/ GetDifficultyPrompt
    \/ GetBloomLevelForDifficulty
    \/ GetDistractorPrompt
    \/ GetExplanationPrompt
    \/ Return

SpecPrompts ==
    InitPrompts /\ [][NextPrompts]_vars

-----------------------------------------------------------------------------
(* The slots of QuestionGenerator.generate_mcq *)

\* The most chunks a text has and the most questions asked for.
MaxChunks ==
    3

MaxSlotQuestions ==
    3

\* The slots a call with num_questions can reach in chunk_count chunks.
SlotsWithin(chunk_count, num_questions) ==
    [chunk_index : 1..chunk_count, q_index : 0..(num_questions - 1)]

\* generator.__init__ loaded the model.
InitSlots ==
    /\ model_loaded = [g \in Generators |-> g = "QuestionGenerator"]
    /\ SIMILARITY_MODEL_LOADED = FALSE
    /\ Idle

\* generate_mcq with the model loaded, on a text of chunk_count chunks; the
\* body of the try of the slots in fails raises (a difficulty that is no str
\* makes get_difficulty_prompt raise in every slot, before any call to the
\* capability).
GenerateMcqSlots ==
    /\ op = "idle"
    /\ model_loaded["QuestionGenerator"]
    /\ \E chunk_count \in 1..MaxChunks, num_questions \in 0..MaxSlotQuestions :
         \E fails \in SUBSET SlotsWithin(chunk_count, num_questions) :
            LET locals == generate_mcq_slots(chunk_count, num_questions, fails)
            IN  /\ op' = "QuestionGenerator.generate_mcq slots"
                /\ args' = [chunk_count |-> chunk_count, num_questions |-> num_questions]
                /\ after' = args'
                /\ oracle' = [fails |-> fails]
                /\ ret' = [raised |-> "none",
                           value |-> locals.questions,
                           attempted |-> locals.attempted,
                           remaining_questions |-> locals.remaining_questions]
                /\ generate_calls' = (1 + 1 + 3 + 1) * Len(locals.questions)
    /\ embed_calls' = 0
    /\ model_loaded' = [model_loaded EXCEPT
                         !["QuestionGenerator"] = model_loaded_after_generate(@)]
    /\ UNCHANGED SIMILARITY_MODEL_LOADED

NextSlots ==
    \/ GenerateMcqSlots
    \/ Return

SpecSlots ==
    InitSlots /\ [][NextSlots]_vars

-----------------------------------------------------------------------------
(* Inputs of _clean_question_text *)

LabelQuestionSpace ==
    <<"Q", "u", "e", "s", "t", "i", "o", "n", ":", " ">>

LabelQSpace ==
    <<"Q", ":", " ">>

BodyWhatIsAtp ==
    <<"W", "h", "a", "t", " ", "i", "s", " ", "A", "T", "P">>

BodyWhatIsAtpMarked ==
    <<"W", "h", "a", "t", " ", "i", "s", " ", "A", "T", "P", "?">>

BodyWhy ==
    <<"W", "h", "y">>

SectionOptions ==
    <<" ", "O", "p", "t", "i", "o", "n", "s", ":", " ", "A", ".", " ", "x", " ", "B", ".", " ",
      "y">>

SectionOptionLower ==
    <<"\n", "o", "p", "t", "i", "o", "n", ":", "c", ".", "z">>

SectionAnswer ==
    <<" ", "A", "n", "s", "w", "e", "r", ":", " ", "B">>

SectionAnswerLower ==
    <<" ", "a", "n", "s", "w", "e", "r", ":", "d">>

NoSectionOptions ==
    <<" ", "O", "p", "t", "i", "o", "n", "s", ":", " ", "n", "o", "n", "e">>

NoSectionAnswer ==
    <<" ", "A", "n", "s", "w", "e", "r", ":", " ", "m", "a", "y", "b", "e">>

\* Raw strings of the capability: an optional label, a question with or
\* without its mark, an optional generated section (or words that only look
\* like one), optional trailing whitespace.
RawLabels ==
    {<<>>, LabelQuestionSpace, LabelQSpace, QLabel}

RawBodies ==
    {<<>>, BodyWhatIsAtp, BodyWhatIsAtpMarked, BodyWhy}

RawSections ==
    {<<>>, SectionOptions, SectionOptionLower, SectionAnswer, SectionAnswerLower,
     NoSectionOptions, NoSectionAnswer}

RawTails ==
    {<<>>, <<" ">>}

RawQuestionTexts ==
    {label \o body \o section \o tail :
        label \in RawLabels, body \in RawBodies, section \in RawSections, tail \in RawTails}

InitQuestionText ==
    /\ model_loaded = [g \in Generators |-> g = "QuestionGenerator"]
    /\ SIMILARITY_MODEL_LOADED = FALSE
    /\ Idle

\* question_text = self._clean_question_text(question_text), line 80
CleanQuestionText ==
    /\ op = "idle"
    /\ \E question_text \in RawQuestionTexts :
         /\ op' = "_clean_question_text"
         /\ args' = [question_text |-> question_text]
         /\ after' = args'
         /\ ret' = [raised |-> "none", value |-> _clean_question_text(question_text)]
    /\ oracle' = NotCalled
    /\ generate_calls' = 0
    /\ embed_calls' = 0
    /\ UNCHANGED <<model_loaded, SIMILARITY_MODEL_LOADED>>

NextQuestionText ==
    \/ CleanQuestionText
    \/ Return

SpecQuestionText ==
    InitQuestionText /\ [][NextQuestionText]_vars

-----------------------------------------------------------------------------
(* processors.py: analyze_text_complexity *)

\* len(set(word.lower() for word in words))
unique_words(words) ==
    Cardinality({lower(words[i]) : i \in 1..Len(words)})

\* Mutation: the limits of the two ratios belong to the higher level.
complexity_of_counts_inclusive(word_count_, sentence_count, unique_words_) ==
    LET avg_above(n) == sentence_count > 0 /\ word_count_ >= n * sentence_count
        vocabulary_above(tenths) == word_count_ > 0 /\ 10 * unique_words_ >= tenths * word_count_
    IN  IF avg_above(20) /\ vocabulary_above(6) THEN "high"
        ELSE IF avg_above(15) /\ vocabulary_above(4) THEN "medium"
        ELSE "low"

\* The level chosen from the two ratios. word_count / sentence_count > n is
\* word_count > n * sentence_count and unique_words / word_count > t / 10 is
\* 10 * unique_words > t * word_count (the float quotient of two ints equals
\* the float literal exactly where the fractions are equal); a ratio whose
\* divisor is 0 is taken as 0 and is above no limit.
complexity_of_counts(word_count_, sentence_count, unique_words_) ==
    LET avg_above(n) == sentence_count > 0 /\ word_count_ > n * sentence_count
        vocabulary_above(tenths) == word_count_ > 0 /\ 10 * unique_words_ > tenths * word_count_
    IN  IF avg_above(20) /\ vocabulary_above(6) THEN "high"
        ELSE IF avg_above(15) /\ vocabulary_above(4) THEN "medium"
        ELSE "low"

\* The returned dict without its two rounded ratios.
analyze_text_complexity(text) ==
    LET words == split(text)
        sentences == split_sentences(text)
        complexity == complexity_of_counts(Len(words), Len(sentences), unique_words(words))
    IN  [word_count |-> Len(words),
         sentence_count |-> Len(sentences),
         difficulty |-> complexity,
         complexity_level |-> complexity,
         key_concepts |-> extract_key_concepts(text)]

-----------------------------------------------------------------------------
(* Inputs of analyze_text_complexity *)

\* Words of a sentence: under, at and above the limits 15 and 20.
WordsPerSentence ==
    {14, 15, 16, 20, 21, 25}

SentenceCounts ==
    {1, 2}

\* Word number j of a text over a vocabulary of u one-letter words; a word
\* that comes again is written in upper case.
ComplexityWord(j, u) ==
    IF j <= u THEN <<LowerChars[j]>> ELSE <<UpperChars[((j - 1) % u) + 1]>>

\* s sentences of w words each, drawn in turn from u words.
ComplexityText(s, w, u) ==
    join(<<" ">>,
         [k \in 1..s |->
             join(<<" ">>, [i \in 1..w |-> ComplexityWord((k - 1) * w + i, u)]) \o <<".">>])

\* Texts without a word or without a sentence.
EmptyTexts ==
    {<<>>, <<" ", " ">>, <<".", ".", ".">>, <<"?", "!">>, <<" ", ".", " ">>}

\* Two words glued by a full stop, and words repeated in another case.
GluedText ==
    <<"a", ".", "b", " ", "A", ".", "B">>

ComplexityTexts ==
    UNION {{ComplexityText(s, w, u) : u \in 1..w} : s \in SentenceCounts, w \in WordsPerSentence}
    \cup EmptyTexts \cup {GluedText}

InitComplexity ==
    /\ model_loaded = [g \in Generators |-> FALSE]
    /\ SIMILARITY_MODEL_LOADED = FALSE
    /\ Idle

AnalyzeTextComplexity ==
    /\ op = "idle"
    /\ \E text \in ComplexityTexts :
         /\ op' = "analyze_text_complexity"
         /\ args' = [text |-> text]
         /\ after' = args'
         /\ ret' = [raised |-> "none", value |-> analyze_text_complexity(text)]
    /\ oracle' = NotCalled
    /\ generate_calls' = 0
    /\ embed_calls' = 0
    /\ UNCHANGED <<model_loaded, SIMILARITY_MODEL_LOADED>>

NextComplexity ==
    \/ AnalyzeTextComplexity
    \/ Return

SpecComplexity ==
    InitComplexity /\ [][NextComplexity]_vars

-----------------------------------------------------------------------------
(* main.py: the generate-questions endpoint *)

NoException ==
    [raised |-> "none", status_code |-> 0]

\* raise HTTPException(status_code=...)
HTTPException(status_code) ==
    [raised |-> "HTTPException", status_code |-> status_code]

\* The checks of lines 62-69, in their order.
request_check(loaded, text, num_questions) ==
    IF ~loaded THEN HTTPException(503)
    ELSE IF Len(strip(text)) < 50 THEN HTTPException(400)
    ELSE IF num_questions < 1 \/ num_questions > 20 THEN HTTPException(400)
    ELSE NoException

\* `except Exception` of line 92: HTTPException derives from Exception, so
\* the handler takes whatever the try block raises.
caught_by_handler(exception) ==
    exception.raised \in {"HTTPException", "Exception"}

\* The questions whose save_question call returned, in order (lines 75-79:
\* a failing save is printed and skipped).
saved_questions(questions, save_ok) ==
    LET kept == [i \in 1..Len(questions) |-> IF save_ok[i] THEN <<questions[i]>> ELSE <<>>]
    IN  join(<<>>, kept)

\* generation is what question_generator.generate_mcq does on this call:
\* it returns generation.questions or raises; save_ok[i] tells whether
\* save_question returns for question i. The result holds the response and
\* the calls made.
generate_questions(loaded, request, generation, save_ok) ==
    LET check == request_check(loaded, request.text, request.num_questions)
        raised_in_try ==
            IF check.raised # "none" THEN check
            ELSE IF generation.status = "raise" THEN [raised |-> "Exception", status_code |-> 0]
            ELSE NoException
        generated == check.raised = "none"
    IN  IF raised_in_try.raised # "none" /\ caught_by_handler(raised_in_try)
        THEN [status_code |-> 500, raised_in_try |-> raised_in_try,
              questions |-> <<>>, total_generated |-> 0,
              generate_mcq_calls |-> IF generated THEN 1 ELSE 0, saved |-> <<>>]
        ELSE IF raised_in_try.raised # "none"
        \* an exception the handler does not take leaves the function as raised
        THEN [status_code |-> raised_in_try.status_code, raised_in_try |-> raised_in_try,
              questions |-> <<>>, total_generated |-> 0,
              generate_mcq_calls |-> IF generated THEN 1 ELSE 0, saved |-> <<>>]
        ELSE [status_code |-> 200, raised_in_try |-> raised_in_try,
              questions |-> generation.questions,
              total_generated |-> Len(generation.questions),
              generate_mcq_calls |-> 1,
              saved |-> saved_questions(generation.questions, save_ok)]

-----------------------------------------------------------------------------
(* Inputs of the endpoint *)

\* Lengths of the stripped text around the 50 characters asked for.
StrippedLengths ==
    {0, 49, 50, 51}

\* Blanks before and after the text.
Paddings ==
    {0, 5}

RequestTexts ==
    {Rep(" ", p) \o Rep("x", n) \o Rep(" ", p) : p \in Paddings, n \in StrippedLengths}

\* Around the limits 1 and 20.
RequestCounts ==
    {-1, 0, 1, 2, 20, 21}

Requests ==
    [text : RequestTexts, num_questions : RequestCounts,
     question_type : {<<"m", "c", "q">>}, difficulty : {Easy}]

\* What generate_mcq does when it is called: it raises or returns up to
\* MaxQuestions questions.
GenerationOutcomes ==
    {[status |-> "raise", questions |-> <<>>]}
    \cup {[status |-> "return", questions |-> [i \in 1..k |-> GoodQuestion]] :
             k \in 0..MaxQuestions}

NoGeneration ==
    [status |-> "not called", questions |-> <<>>]

\* main.py line 14: the generator of gemini_generator, loaded or not.
InitEndpoint ==
    /\ model_loaded \in {[g \in Generators |-> g = "GeminiQuestionGenerator" /\ b] : b \in BOOLEAN}
    /\ SIMILARITY_MODEL_LOADED = FALSE
    /\ Idle

GenerateQuestions ==
    /\ op = "idle"
    /\ \E request \in Requests :
         LET loaded == model_loaded["GeminiQuestionGenerator"]
             called == request_check(loaded, request.text, request.num_questions).raised = "none"
         IN  \E generation \in (IF called THEN GenerationOutcomes ELSE {NoGeneration}) :
                \E save_ok \in [1..Len(generation.questions) -> BOOLEAN] :
                   /\ op' = "generate_questions"
                   /\ args' = [request |-> request]
                   /\ after' = args'
                   /\ oracle' = [generation |-> generation, save_ok |-> save_ok]
                   /\ ret' = generate_questions(loaded, request, generation, save_ok)
    /\ generate_calls' = 0
    /\ embed_calls' = 0
    /\ UNCHANGED <<model_loaded, SIMILARITY_MODEL_LOADED>>

NextEndpoint ==
    \/ GenerateQuestions
    \/ Return

SpecEndpoint ==
    InitEndpoint /\ [][NextEndpoint]_vars

-----------------------------------------------------------------------------
(* Claims *)

\* The fields validate_question_quality reads of the question it was given.
ValidatedText ==
    DictGet(args.question, "question", <<>>)

ValidatedOptions ==
    DictGet(args.question, "options", <<>>)

ValidatedAnswer ==
    DictGet(args.question, "correct_answer", <<>>)

ValidatedExplanation ==
    DictGet(args.question, "explanation", <<>>)

\* C2: validate_question_quality returns normally and its score is an
\* integer in 0..100, for well-formed and for malformed question records.
C2_ScoreInRange ==
    op = "validate_question_quality" =>
        /\ ret.raised = "none"
        /\ ret.score \in 0..100

\* A record with no field at all was validated; its penalties add up to more
\* than 100 and the score is 0.
C2_Witness ==
    /\ op = "validate_question_quality"
    /\ DOMAIN args.question = {}
    /\ ret.raised = "none"
    /\ ret.score = 0

\* The penalty table of the claim, in its order: condition, points, message.
C3_Table ==
    << [holds |-> ValidatedText = <<>> \/ ValidatedText[Len(ValidatedText)] # "?",
        points |-> 10, message |-> MsgNoQuestionMark],
       [holds |-> Len(ValidatedText) < 10, points |-> 20, message |-> MsgTooShort],
       [holds |-> Len(ValidatedText) > 200, points |-> 10, message |-> MsgTooLong],
       [holds |-> Len(ValidatedOptions) # 4, points |-> 30,
        message |-> MsgOptionCount \o PyStr(Len(ValidatedOptions))],
       [holds |-> \A i \in 1..Len(ValidatedOptions) : ValidatedOptions[i] # ValidatedAnswer,
        points |-> 40, message |-> MsgAnswerMissing],
       [holds |-> \E i, j \in 1..Len(ValidatedOptions) :
                     i # j /\ ValidatedOptions[i] = ValidatedOptions[j],
        points |-> 25, message |-> MsgDuplicate],
       [holds |-> SumLen(ValidatedOptions) < 5 * Len(ValidatedOptions)
                  \/ ValidatedOptions = <<>>,
        points |-> 15, message |-> MsgOptionsShort],
       [holds |-> Len(ValidatedExplanation) < 10, points |-> 10,
        message |-> MsgExplanationShort],
       [holds |-> /\ Len(ValidatedOptions) >= 4
                  /\ score_distractor_quality(ValidatedOptions, ValidatedAnswer, oracle) < 50,
        points |-> 20, message |-> MsgPoorDistractors] >>

C3_Applied ==
    SelectSeq(C3_Table, LAMBDA row : row.holds)

C3_Points ==
    SumSeq([i \in 1..Len(C3_Applied) |-> C3_Applied[i].points])

C3_DuplicateQuestion ==
    [GoodQuestion EXCEPT !.options = DuplicateScenario]

\* C3: the score is max(0, min(100, 100 - P)) for P the sum of the penalties
\* of the table whose condition holds; the feedback is the messages of exactly
\* the applied penalties, and is 'Good quality question' exactly when there is
\* none; a record whose only violation is a duplicate option scores 75 and
\* its feedback contains 'Duplicate options found'.
C3_ScoreIsPenaltySum ==
    op = "validate_question_quality" =>
        /\ ret.score = Max(0, Min(100, 100 - C3_Points))
        /\ ret.feedback =
             (IF C3_Applied = <<>> THEN MsgGood
              ELSE join(FeedbackSeparator,
                        [i \in 1..Len(C3_Applied) |-> C3_Applied[i].message]))
        /\ (ret.feedback = MsgGood) <=> (C3_Applied = <<>>)
        /\ (args.question = C3_DuplicateQuestion /\ C3_Points = 25) =>
             (ret.score = 75 /\ Contains(ret.feedback, MsgDuplicate))

\* The duplicate-option scenario was validated and scored 75.
C3_Witness ==
    /\ op = "validate_question_quality"
    /\ args.question = C3_DuplicateQuestion
    /\ ret.score = 75
    /\ ret.feedback = MsgDuplicate

\* C4: a correct_answer that is no exact match of any option is reported:
\* 40 points are taken (the score is at most 60), the feedback contains
\* 'Correct answer not found in options', the call returns normally and the
\* record is left as it was.
C4_MissingAnswerReported ==
    (/\ op = "validate_question_quality"
     /\ \A i \in 1..Len(ValidatedOptions) : ValidatedOptions[i] # ValidatedAnswer) =>
        /\ ret.raised = "none"
        /\ ret.score <= 60
        /\ Contains(ret.feedback, MsgAnswerMissing)
        /\ after = args

\* The Madrid scenario was validated: only the 40 points were taken.
C4_Witness ==
    /\ op = "validate_question_quality"
    /\ args.question = [GoodQuestion EXCEPT !.correct_answer = Madrid]
    /\ ret.score = 60
    /\ ret.feedback = MsgAnswerMissing
    /\ after = args

\* C8: without the embedding capability score_distractor_quality returns 70
\* for every options list and correct answer, and makes no embedding call.
C8_DefaultWithoutEmbedding ==
    /\ (op = "score_distractor_quality" /\ ~SIMILARITY_MODEL_LOADED) =>
          (ret.value = 70 /\ embed_calls = 0)
    /\ (/\ op = "validate_question_quality"
        /\ ~SIMILARITY_MODEL_LOADED
        /\ ret.raised = "none"
        /\ "distractor_quality" \in DOMAIN ret.quality_metrics) =>
          (ret.quality_metrics.distractor_quality = 70 /\ embed_calls = 0)

\* It was called without the capability on a list that holds no distractor.
C8_Witness ==
    /\ op = "score_distractor_quality"
    /\ ~SIMILARITY_MODEL_LOADED
    /\ args.options = <<Paris, Paris>>
    /\ args.correct_answer = Paris
    /\ ret.value = 70

\* C10: validate_multiple_questions returns one result per question, in the
\* order of the questions, each the result of validate_question_quality on
\* that question alone.
C10_BatchIsPointwise ==
    op = "validate_multiple_questions" =>
        /\ ret.raised = "none"
        /\ Len(ret.results) = Len(args.questions)
        /\ \A i \in 1..Len(args.questions) :
             ret.results[i] = validate_question_quality(args.questions[i], oracle[i])

\* A batch of two questions whose results differ was validated.
C10_Witness ==
    /\ op = "validate_multiple_questions"
    /\ Len(args.questions) = 2
    /\ Len(ret.results) = 2
    /\ ret.results[1].score = 100
    /\ ret.results[2].score < 100

\* The words of s when . ! ? separate words as whitespace does.
SentenceWords(s) ==
    LET separates(c) == IsSpace(c) \/ IsTerminator(c)
    IN  Cardinality({i \in 1..Len(s) : ~separates(s[i]) /\ (i = 1 \/ separates(s[i - 1]))})

\* C6: preprocess_text returns at least one chunk for a non-empty text, and
\* every chunk has at least 200 words unless it is the single fallback
\* chunk, the cleaned text.
C6_ChunksLongEnough ==
    op = "preprocess_text" =>
        /\ args.text # <<>> => Len(ret.value) >= 1
        /\ \A i \in 1..Len(ret.value) :
             \/ word_count(ret.value[i]) >= 200
             \/ ret.value = <<clean_text(args.text)>>

\* A text gave a chunk of 200 words or more although a shorter run of
\* sentences was left over or dropped.
C6_Witness ==
    /\ op = "preprocess_text"
    /\ args.text # <<>>
    /\ Len(ret.value) = 1
    /\ word_count(ret.value[1]) >= 200
    /\ word_count(ret.value[1]) < word_count(args.text)

\* C7 as claimed: any input of fewer than 200 words comes back as one chunk,
\* the cleaned full text.
C7_ShortInputIsOneCleanedChunk ==
    (op = "preprocess_text" /\ word_count(args.text) < 200) =>
        ret.value = <<clean_text(args.text)>>

\* C7, amended: when no accumulated chunk reaches 200 words, in particular
\* when the sentences of the cleaned text hold fewer than 200 words in all,
\* the result is one chunk, the cleaned full text.
C7_FallbackIsCleanedText ==
    op = "preprocess_text" =>
        LET cleaned_text == clean_text(args.text)
        IN  /\ SentenceWords(cleaned_text) < 200 => ret.value = <<cleaned_text>>
            /\ accumulate_chunks(split_sentences(cleaned_text), <<>>, <<>>, 0) = <<>>
                  => ret.value = <<cleaned_text>>

\* The two-sentence scenario text came back whole, and so did a text whose
\* sentences end in ! and ?.
C7_Witness ==
    /\ op = "preprocess_text"
    /\ args.text \in {MitoText, PunctText}
    /\ ret.value = <<clean_text(args.text)>>
    /\ SentenceWords(clean_text(args.text)) \in 1..199

\* term is a run of letters of the cleaned lower-case text, bounded by
\* characters that are no word characters, and no stop word.
IsFilteredToken(term, text) ==
    LET cleaned == clean_text(lower(text))
    IN  /\ term \notin stop_words
        /\ \A k \in 1..Len(term) : IsLetter(term[k])
        /\ \E i \in 1..(Len(cleaned) - Len(term) + 1) :
             LET j == i + Len(term) - 1
             IN  /\ SubSeq(cleaned, i, j) = term
                 /\ i = 1 \/ ~IsWordChar(cleaned[i - 1])
                 /\ j = Len(cleaned) \/ ~IsWordChar(cleaned[j + 1])

OnlyStopWords(text) ==
    LET lowered == lower(text)
        words == Runs(lowered, List([i \in 1..Len(lowered) |-> ~IsSpace(lowered[i])]))
    IN  \A i \in 1..Len(words) : words[i] \in stop_words

\* C9: extract_key_concepts returns at most 10 terms, no term twice, each a
\* token of the input that survives the stop-word filter; for empty input
\* and for input of stop words only it returns the empty list, without error.
C9_ConceptsBounded ==
    op = "extract_key_concepts" =>
        /\ ret.raised = "none"
        /\ Len(ret.value) <= 10
        /\ \A i, j \in 1..Len(ret.value) : i # j => ret.value[i] # ret.value[j]
        /\ \A i \in 1..Len(ret.value) : IsFilteredToken(ret.value[i], args.text)
        /\ (args.text = <<>> \/ OnlyStopWords(args.text)) => ret.value = <<>>

\* A text with more than 10 distinct terms gave exactly 10.
C9_Witness ==
    /\ op = "extract_key_concepts"
    /\ args.text = ConceptText
    /\ Len(ret.value) = 10

GenerateOps ==
    {"QuestionGenerator.generate_mcq", "GeminiQuestionGenerator.generate_mcq"}

PairwiseDistinct(options) ==
    \A i, j \in 1..Len(options) : i # j => options[i] # options[j]

\* C1 as claimed: every question generate returns, on the model path and on
\* the fallback path of both generators, has exactly 4 options, pairwise
\* distinct, with correct_answer among them, whatever the generation
\* capability put out.
C1_OptionsDistinctWithAnswer ==
    op \in GenerateOps =>
        \A i \in 1..Len(ret.value) :
            /\ Len(ret.value[i].options) = 4
            /\ PairwiseDistinct(ret.value[i].options)
            /\ In(ret.value[i].correct_answer, ret.value[i].options)

\* C1, the part that holds: every question generate returns has exactly 4
\* options and correct_answer is one of them.
C1_FourOptionsWithAnswer ==
    op \in GenerateOps =>
        \A i \in 1..Len(ret.value) :
            /\ Len(ret.value[i].options) = 4
            /\ In(ret.value[i].correct_answer, ret.value[i].options)

\* The model path returned a question after the capability put out a string
\* equal to a fallback label and an empty string.
C1_Witness ==
    /\ op = "QuestionGenerator.generate_mcq"
    /\ model_loaded["QuestionGenerator"]
    /\ Len(ret.value) >= 1
    /\ oracle.scripts[1].distractors[1] = Generated(AlternativeOption2)
    /\ oracle.scripts[1].distractors[2] = Generated(<<>>)
    /\ In(AlternativeOption2, ret.value[1].options)

\* C5: with model_loaded false, generate_mcq of either generator returns
\* exactly num_questions records, for every text and every num_questions >= 0,
\* each with 4 pairwise distinct options that contain correct_answer, and
\* calls the generation capability not once.
C5_FallbackWithoutCapability ==
    \A g \in Generators :
        (op = g \o ".generate_mcq" /\ ~model_loaded[g]) =>
            /\ ret.raised = "none"
            /\ Len(ret.value) = args.num_questions
            /\ \A i \in 1..Len(ret.value) :
                 /\ Len(ret.value[i].options) = 4
                 /\ PairwiseDistinct(ret.value[i].options)
                 /\ In(ret.value[i].correct_answer, ret.value[i].options)
            /\ generate_calls = 0

\* Both generators, unloaded, returned 2 questions for a text with no word
\* longer than 5 characters.
C5_Witness ==
    /\ op \in GenerateOps
    /\ \A g \in Generators : ~model_loaded[g]
    /\ args.text = ShortWordsText
    /\ args.num_questions = 2
    /\ Len(ret.value) = 2

\* C11: no failure of a call to the generation capability reaches the caller
\* of generate_mcq. With a loaded model QuestionGenerator returns one record
\* per requested question, a field whose call raised holding the placeholder;
\* GeminiQuestionGenerator returns the empty list for an empty or unparsable
\* response and the fallback questions when the call raised.
C11_CapabilityFailuresAbsorbed ==
    /\ (op = "QuestionGenerator.generate_mcq" /\ model_loaded["QuestionGenerator"]) =>
          /\ ret.raised = "none"
          /\ Len(ret.value) = args.num_questions
          /\ \A k \in 1..Len(ret.value) :
               /\ Len(ret.value[k].options) = 4
               /\ oracle.scripts[k].question = Raises =>
                     ret.value[k].question = GeneratedContent \o <<"?">>
               /\ oracle.scripts[k].answer = Raises =>
                     ret.value[k].correct_answer = GeneratedContent
               /\ oracle.scripts[k].explanation = Raises =>
                     ret.value[k].explanation = GeneratedContent
    /\ (op = "GeminiQuestionGenerator.generate_mcq"
        /\ model_loaded["GeminiQuestionGenerator"]) =>
          /\ ret.raised = "none"
          /\ oracle.response.status \in {"empty", "unparsable"} => ret.value = <<>>
          /\ oracle.response.status = "raise" =>
                /\ Len(ret.value) = args.num_questions
                /\ \A k \in 1..Len(ret.value) :
                     /\ Len(ret.value[k].options) = 4
                     /\ ret.value[k].explanation = GeminiMockExplanation

\* All six calls of each of two slots raised and two questions came back.
C11_Witness ==
    /\ op = "QuestionGenerator.generate_mcq"
    /\ model_loaded["QuestionGenerator"]
    /\ args.num_questions = 2
    /\ \A k \in 1..2 : oracle.scripts[k].answer = Raises
    /\ Len(ret.value) = 2
    /\ ret.value[1].correct_answer = GeneratedContent

\* The call that returned was given an empty text or no positive number of
\* questions (generate_mcq), or an empty batch (validate_multiple_questions).
DegenerateInput ==
    \/ /\ op \in GenerateOps
       /\ (args.text = <<>> \/ args.num_questions <= 0)
    \/ /\ op = "validate_multiple_questions"
       /\ args.questions = <<>>

\* C12: an entry point called with degenerate input (generate_mcq with empty
\* text or num_questions <= 0, validate_multiple_questions with an empty
\* batch) fails with an error and returns no list.
C12_DegenerateInputRejected ==
    DegenerateInput => ret.raised # "none"

\* C12, what the code does: degenerate input is served like any other; with
\* no positive number of questions the list is empty, with an empty text it
\* holds as many records as a non-empty text would give.
C12_DegenerateInputServed ==
    DegenerateInput =>
       /\ ret.raised = "none"
       /\ op \in GenerateOps /\ args.num_questions <= 0 => ret.value = <<>>
       /\ (/\ op = "QuestionGenerator.generate_mcq"
           /\ args.text = <<>>) => Len(ret.value) = args.num_questions
       /\ (/\ op = "GeminiQuestionGenerator.generate_mcq"
           /\ args.text = <<>>
           /\ ~model_loaded["GeminiQuestionGenerator"]) =>
                /\ Len(ret.value) = args.num_questions
                /\ \A k \in 1..Len(ret.value) : ret.value[k].question = GeminiMostAccurate

\* generate_mcq of the loaded QuestionGenerator returned two records for the
\* empty text.
C12_Witness ==
    /\ op = "QuestionGenerator.generate_mcq"
    /\ model_loaded["QuestionGenerator"]
    /\ args.text = <<>>
    /\ args.num_questions = 2
    /\ ret.raised = "none"
    /\ Len(ret.value) = 2

\* C14: the Validator never mutates a question. When validate_question_quality
\* or validate_multiple_questions has returned, every input question has the
\* keys and values it was passed with (text, options in their order,
\* correct_answer, explanation, difficulty, bloom_level), and each result is
\* a record of its own with none of the question's keys.
C14_QuestionsUnchanged ==
    /\ op = "validate_question_quality" =>
          /\ after.question = args.question
          /\ DOMAIN ret \cap DOMAIN after.question = {}
    /\ op = "validate_multiple_questions" =>
          /\ after.questions = args.questions
          /\ ret.raised = "none" =>
                /\ Len(ret.results) = Len(args.questions)
                /\ \A i \in 1..Len(ret.results) :
                     DOMAIN ret.results[i] \cap DOMAIN after.questions[i] = {}

\* A batch of a question without options and a question carrying difficulty
\* and bloom_level was validated.
C14_Witness ==
    /\ op = "validate_multiple_questions"
    /\ Len(args.questions) = 2
    /\ "options" \notin DOMAIN args.questions[1]
    /\ args.questions[2] = LabelledQuestion
    /\ ret.raised = "none"
    /\ Len(ret.results) = 2
    /\ after.questions[2].bloom_level = LabelledQuestion.bloom_level

MetricKeys ==
    {"question_length", "option_count", "explanation_length", "has_question_mark",
     "unique_options", "distractor_quality", "bloom_level"}

\* The results the call that returned has produced.
ValidationResults ==
    IF op = "validate_question_quality" /\ ret.raised = "none" THEN {ret}
    ELSE IF op = "validate_multiple_questions" /\ ret.raised = "none"
    THEN Range(ret.results)
    ELSE {}

\* C15: the quality_metrics of every validation result hold all seven keys
\* question_length, option_count, explanation_length, has_question_mark,
\* unique_options, distractor_quality and bloom_level, also for a question with
\* fewer than 4 options.
C15_AllSevenMetrics ==
    \A result \in ValidationResults : MetricKeys \subseteq DOMAIN result.quality_metrics

\* C15, what the code does: the six other keys are always there, and
\* distractor_quality is there exactly when the question has 4 options or more.
C15_DistractorQualityFromFourOptions ==
    /\ \A result \in ValidationResults :
          /\ MetricKeys \ {"distractor_quality"} \subseteq DOMAIN result.quality_metrics
          /\ DOMAIN result.quality_metrics \subseteq MetricKeys
          /\ "distractor_quality" \in DOMAIN result.quality_metrics
                <=> result.quality_metrics.option_count >= 4
    /\ op = "validate_question_quality" /\ ret.raised = "none" =>
          ret.quality_metrics.option_count = Len(DictGet(args.question, "options", <<>>))

\* A question with 3 options was validated and its metrics lack
\* distractor_quality.
C15_Witness ==
    /\ op = "validate_question_quality"
    /\ ret.raised = "none"
    /\ Len(DictGet(args.question, "options", <<>>)) = 3
    /\ DOMAIN ret.quality_metrics = MetricKeys \ {"distractor_quality"}

\* C16: unavailability of the capability is permanent. No step of the process,
\* a generate_mcq call of any outcome included, changes model_loaded of either
\* generator, and every generate_mcq call of a generator whose load_model left
\* model_loaded false makes no call to the capability and returns the
\* num_questions fallback questions.
C16_UnavailabilityPermanent ==
    /\ [][model_loaded' = model_loaded]_vars
    /\ [](\A g \in Generators :
            (op = g \o ".generate_mcq" /\ ~model_loaded[g]) =>
               /\ generate_calls = 0
               /\ ret.raised = "none"
               /\ Len(ret.value) = args.num_questions)

\* The Gemini generator, not loaded, served a call with fallback questions
\* while the other generator is loaded.
C16_Witness ==
    /\ op = "GeminiQuestionGenerator.generate_mcq"
    /\ ~model_loaded["GeminiQuestionGenerator"]
    /\ model_loaded["QuestionGenerator"]
    /\ generate_calls = 0
    /\ args.num_questions = 2
    /\ Len(ret.value) = 2

\* Two lists of questions agree position by position on the question text,
\* the correct answer, the set of options and the explanation.
SameQuestions(first, second) ==
    /\ Len(first) = Len(second)
    /\ \A i \in 1..Len(first) :
          /\ first[i].question = second[i].question
          /\ first[i].correct_answer = second[i].correct_answer
          /\ Range(first[i].options) = Range(second[i].options)
          /\ Len(first[i].options) = 4
          /\ Len(second[i].options) = 4
          /\ first[i].explanation = second[i].explanation

\* What the generators computed from the text of the call that returned.
InputOfCall ==
    CHOOSE input \in Range(GeneratorInputs) : input.text = args.text

\* Every list a second fallback call with the same text and num_questions can
\* return, over the outcomes of random.shuffle and random.choice.
SecondFallbackCalls ==
    IF op = "QuestionGenerator.generate_mcq"
    THEN {_generate_mock_questions(InputOfCall.key_terms, args.num_questions, orders) :
            orders \in [1..args.num_questions -> ShuffleOrders]}
    ELSE {gemini_generate_mock_questions(InputOfCall.key_terms, args.num_questions, picks) :
            picks \in [1..args.num_questions -> 1..Max(1, Len(InputOfCall.key_terms))]}

\* C17: the fallback questions are deterministic. A second fallback-mode call
\* of generate_mcq with the same text and the same num_questions returns,
\* position by position, the same question text, correct answer, set of 4
\* options and explanation as the call that returned.
C17_FallbackDeterministic ==
    \A g \in Generators :
        (op = g \o ".generate_mcq" /\ ~model_loaded[g]) =>
            \A second \in SecondFallbackCalls : SameQuestions(ret.value, second)

\* C17, what the code does: the fallback of QuestionGenerator is
\* deterministic, option order aside. In the fallback of
\* GeminiQuestionGenerator the options, the correct answer and the explanation
\* are the same in every call, and the question text is the same when the
\* text has at most one distinct key term.
C17_FallbackDeterministicButGeminiText ==
    /\ (op = "QuestionGenerator.generate_mcq" /\ ~model_loaded["QuestionGenerator"]) =>
          \A second \in SecondFallbackCalls : SameQuestions(ret.value, second)
    /\ (op = "GeminiQuestionGenerator.generate_mcq"
        /\ ~model_loaded["GeminiQuestionGenerator"]) =>
          \A second \in SecondFallbackCalls :
             /\ Len(second) = Len(ret.value)
             /\ \A i \in 1..Len(second) :
                  /\ second[i].options = ret.value[i].options
                  /\ second[i].correct_answer = ret.value[i].correct_answer
                  /\ second[i].explanation = ret.value[i].explanation
                  /\ Cardinality(Range(InputOfCall.key_terms)) <= 1 =>
                        second[i].question = ret.value[i].question

\* A fallback call of GeminiQuestionGenerator asked about the second key term
\* of the text where another call asks about the first.
C17_Witness ==
    /\ op = "GeminiQuestionGenerator.generate_mcq"
    /\ ~model_loaded["GeminiQuestionGenerator"]
    /\ args.num_questions >= 1
    /\ Len(InputOfCall.key_terms) >= 2
    /\ InputOfCall.key_terms[1] # InputOfCall.key_terms[2]
    /\ ret.value[1].question =
          GeminiSignificancePrefix \o InputOfCall.key_terms[2] \o GeminiSignificanceSuffix

\* The three keyword counts of the text of the call that returned, in the
\* order science, history, literature.
SubjectCounts ==
    LET text_lower == lower(args.text)
    IN  <<[subject |-> SubjectScience,
           count |-> keyword_count(science_keywords, text_lower)],
          [subject |-> SubjectHistory,
           count |-> keyword_count(history_keywords, text_lower)],
          [subject |-> SubjectLiterature,
           count |-> keyword_count(literature_keywords, text_lower)]>>

LargestSubjectCount ==
    CHOOSE c \in {SubjectCounts[i].count : i \in 1..3} :
        \A i \in 1..3 : SubjectCounts[i].count <= c

\* C13: detect_subject_area depends on its text only. With the largest of the
\* three keyword counts below 2 it returns 'general'; otherwise it returns the
\* first domain, in the order science, history, literature, whose count
\* equals the largest count. A second call on the same text returns the same.
C13_SubjectFromCounts ==
    op = "detect_subject_area" =>
       /\ ret.raised = "none"
       /\ LargestSubjectCount < 2 => ret.value = SubjectGeneral
       /\ LargestSubjectCount >= 2 =>
             \E i \in 1..3 :
                /\ ret.value = SubjectCounts[i].subject
                /\ SubjectCounts[i].count = LargestSubjectCount
                /\ \A j \in 1..(i - 1) : SubjectCounts[j].count < LargestSubjectCount
       /\ ret.again = ret.value
       /\ after = args

\* Science and history tie at two keywords each and science is returned.
C13_Witness ==
    /\ op = "detect_subject_area"
    /\ SubjectCounts[1].count = 2
    /\ SubjectCounts[2].count = 2
    /\ SubjectCounts[3].count < 2
    /\ ret.value = SubjectScience

BloomRemember ==
    <<"R", "e", "m", "e", "m", "b", "e", "r">>

BloomAnalyze ==
    <<"A", "n", "a", "l", "y", "z", "e">>

CreateAChallenging ==
    <<"C", "r", "e", "a", "t", "e", " ", "a", " ", "c", "h", "a", "l", "l", "e", "n", "g", "i",
      "n", "g", " ", "m", "u", "l", "t", "i", "p", "l", "e", " ", "c", "h", "o", "i", "c", "e",
      " ", "q", "u", "e", "s", "t", "i", "o", "n", " ", "t", "h", "a", "t", " ", "t", "e", "s",
      "t", "s", " ", "c", "r", "i", "t", "i", "c", "a", "l", " ", "a", "n", "a", "l", "y", "s",
      "i", "s", " ", "a", "n", "d", " ", "e", "v", "a", "l", "u", "a", "t", "i", "o", "n", " ",
      "f", "r", "o", "m", " ", "t", "h", "i", "s", " ", "t", "e", "x", "t", ":", " ">>

IsStr(s) ==
    /\ DOMAIN s = 1..Len(s)
    /\ \A i \in 1..Len(s) : s[i] \in STRING

PromptOps ==
    {"get_difficulty_prompt", "get_bloom_level_for_difficulty",
     "get_distractor_prompt", "get_explanation_prompt"}

KnownDifficulties ==
    {Easy, Medium, Hard, Mixed}

\* The primary Bloom level of each known difficulty.
PrimaryBloomLevel ==
    (Easy :> BloomRemember) @@ (Medium :> BloomUnderstand)
    @@ (Hard :> BloomAnalyze) @@ (Mixed :> BloomRemember)

GenericQuestionPrompt ==
    QUESTION_PROMPT[1].literal \o args.text

GenericDistractorPrompt ==
    DISTRACTOR_PROMPT[1].literal \o args.correct_answer
    \o DISTRACTOR_PROMPT[2].literal \o args.context

GenericExplanationPrompt ==
    EXPLANATION_PROMPT[1].literal \o args.answer
    \o EXPLANATION_PROMPT[2].literal \o args.question

\* C18: the four prompt builders return a string for every string argument
\* and change nothing, their arguments included. An unrecognised difficulty,
\* distractor kind or explanation kind gives the generic template with the
\* arguments filled in (and 'Understand' as Bloom level), a recognised one
\* gives its own template, and a difficulty is recognised whatever its case.
C18_PromptBuildersTotal ==
    /\ op \in PromptOps =>
          /\ ret.raised = "none"
          /\ IsStr(ret.value)
          /\ after = args
          /\ \A g \in Generators : ~model_loaded[g]
          /\ ~SIMILARITY_MODEL_LOADED
    /\ op = "get_difficulty_prompt" =>
          /\ lower(args.difficulty) \notin KnownDifficulties =>
                ret.value = GenericQuestionPrompt
          /\ lower(args.difficulty) \in KnownDifficulties =>
                /\ ret.value # GenericQuestionPrompt
                /\ endswith(ret.value, args.text)
                /\ ret.value = get_difficulty_prompt(lower(args.difficulty), args.text)
          /\ lower(args.difficulty) = Hard => ret.value = CreateAChallenging \o args.text
    /\ op = "get_bloom_level_for_difficulty" =>
          ret.value = IF lower(args.difficulty) \in KnownDifficulties
                      THEN PrimaryBloomLevel[lower(args.difficulty)]
                      ELSE BloomUnderstand
    /\ op = "get_distractor_prompt" =>
          /\ args.distractor_type \notin {Conceptual, Factual, Analytical} =>
                ret.value = GenericDistractorPrompt
          /\ args.distractor_type \in {Conceptual, Factual, Analytical} =>
                /\ ret.value # GenericDistractorPrompt
                /\ endswith(ret.value, DISTRACTOR_PROMPT[2].literal \o args.context)
                /\ Contains(ret.value, <<"'">> \o args.correct_answer \o <<"'">>)
    /\ op = "get_explanation_prompt" =>
          /\ args.explanation_type \notin {Basic, Detailed, Analytical} =>
                ret.value = GenericExplanationPrompt
          /\ args.explanation_type \in {Basic, Detailed, Analytical} =>
                /\ ret.value # GenericExplanationPrompt
                /\ Contains(ret.value, <<"'">> \o args.answer \o <<"'">>)
                /\ Contains(ret.value, <<"'">> \o args.question \o <<"'">>)

\* get_difficulty_prompt was called with 'Hard' and returned the prompt of
\* the difficulty 'hard'.
C18_Witness ==
    /\ op = "get_difficulty_prompt"
    /\ args.difficulty = HardCapital
    /\ args.text = BracesText
    /\ ret.value = CreateAChallenging \o BracesText

\* The slots of the call that were attempted in the chunk, as q_index values
\* in the order of the attempts.
AttemptedIn(chunk_index) ==
    LET in_chunk == SelectSeq(ret.attempted, LAMBDA slot : slot.chunk_index = chunk_index)
    IN  [i \in 1..Len(in_chunk) |-> in_chunk[i].q_index]

\* How many questions the chunks before the given one produced.
ProducedBefore(chunk_index) ==
    Len(SelectSeq(ret.value, LAMBDA slot : slot.chunk_index < chunk_index))

\* The share of a chunk: the final chunk takes all that remains, another one
\* min(max(1, floor(num_questions / chunk_count)), remaining).
ChunkShare(chunk_index, remaining) ==
    IF remaining <= 0 THEN 0
    ELSE IF chunk_index = args.chunk_count THEN remaining
    ELSE Min(Max(1, args.num_questions \div args.chunk_count), remaining)

C20_FailingSlotSkipped ==
    op = "QuestionGenerator.generate_mcq slots" =>
        /\ ret.raised = "none"
        /\ ret.value = SelectSeq(ret.attempted, LAMBDA slot : slot \notin oracle.fails)
        /\ \A chunk_index \in 1..args.chunk_count :
              AttemptedIn(chunk_index) =
                 [i \in 1..ChunkShare(chunk_index,
                                      args.num_questions - ProducedBefore(chunk_index))
                    |-> i - 1]
        /\ Len(ret.value) <= args.num_questions
        /\ ret.remaining_questions = args.num_questions - Len(ret.value)

\* The only slot of the first chunk and the second slot of the final chunk
\* raised; the slot after it was still attempted and two questions of three
\* came back.
C20_Witness ==
    /\ op = "QuestionGenerator.generate_mcq slots"
    /\ args.chunk_count = 2
    /\ args.num_questions = 3
    /\ oracle.fails = {[chunk_index |-> 1, q_index |-> 0], [chunk_index |-> 2, q_index |-> 1]}
    /\ ret.attempted = <<[chunk_index |-> 1, q_index |-> 0], [chunk_index |-> 2, q_index |-> 0],
                         [chunk_index |-> 2, q_index |-> 1], [chunk_index |-> 2, q_index |-> 2]>>
    /\ ret.value = <<[chunk_index |-> 2, q_index |-> 0], [chunk_index |-> 2, q_index |-> 2]>>

\* What _generate_enhanced_distractors returned in slot k of the call that
\* returned: its arguments are the slot's correct answer and the outcomes of
\* the slot's three distractor calls.
DistractorsOf(k) ==
    _generate_enhanced_distractors(ret.value[k].correct_answer,
                                   oracle.scripts[k].distractors)

ModelPathReturned ==
    /\ op = "QuestionGenerator.generate_mcq"
    /\ model_loaded["QuestionGenerator"]

\* C21: _generate_enhanced_distractors returns exactly 3 strings for every
\* combination of outcomes of its 3 calls; a generated string is kept only if
\* it is non-empty, differs from the correct answer and from the distractors
\* before it, the fallback of the position is used otherwise, and so the 3
\* distractors are pairwise distinct and none equals the correct answer.
C21_DistractorsDistinct ==
    ModelPathReturned =>
        \A k \in 1..Len(ret.value) :
            /\ Len(DistractorsOf(k)) = 3
            /\ PairwiseDistinct(DistractorsOf(k))
            /\ ~In(ret.value[k].correct_answer, DistractorsOf(k))

\* C21, what the code does: 3 strings come back; the string of position i is
\* the stripped generated string when that is non-empty, differs from the
\* correct answer and from the distractors before it, and the label
\* 'Alternative option i' otherwise, which is compared with nothing.
C21_ThreeDistractorsOrLabels ==
    ModelPathReturned =>
        \A k \in 1..Len(ret.value) :
            LET distractors == DistractorsOf(k)
                correct_answer == ret.value[k].correct_answer
                options == ret.value[k].options
                unshuffled == <<correct_answer>> \o distractors
            IN  /\ Len(distractors) = 3
                /\ \A i \in 1..3 :
                     LET generated ==
                             strip(_generate_text(oracle.scripts[k].distractors[i]))
                         kept == /\ generated # <<>>
                                 /\ generated # correct_answer
                                 /\ \A j \in 1..(i - 1) : distractors[j] # generated
                     IN  distractors[i] =
                            IF kept THEN generated ELSE AlternativeOptionPrefix \o PyStr(i)
                /\ \A i \in 1..4 :
                     Cardinality({j \in 1..4 : options[j] = options[i]})
                     = Cardinality({j \in 1..4 : unshuffled[j] = options[i]})

\* The answer call put out 'Alternative option 1' and the first distractor
\* call the empty string: the first distractor is the correct answer.
C21_Witness ==
    /\ ModelPathReturned
    /\ Len(ret.value) >= 1
    /\ oracle.scripts[1].answer = Generated(AlternativeOption1)
    /\ oracle.scripts[1].distractors[1] = Generated(<<>>)
    /\ DistractorsOf(1)[1] = ret.value[1].correct_answer

\* A generated 'Options: A. ...' or 'Answer: A ...' section starts somewhere
\* in the string.
HasSection(s) ==
    \E p \in 1..Len(s) :
        options_section_at(lower(s), p) \/ answer_section_at(lower(s), p)

HasLabel(s) ==
    startswith(s, QuestionLabel) \/ startswith(s, QLabel)

\* C22: for every raw generated string, one with a leading 'Question:' or
\* 'Q:' label and one followed by a generated 'Options: A. ...' or
\* 'Answer: A ...' section included, the result of _clean_question_text ends
\* with '?' and holds neither the label nor the section.
C22_CleanedEndsWithMark ==
    op = "_clean_question_text" =>
        /\ endswith(ret.value, <<"?">>)
        /\ ~HasLabel(ret.value)
        /\ ~HasSection(ret.value)

\* C22, what the code does: the label and the section are gone, and the
\* result ends with '?' when the raw string holds no section. When a section
\* is cut the mark added before the cut goes with it: the result is a piece
\* of the raw string and ends with '?' only if the raw string has one there.
C22_MarkCutWithSection ==
    op = "_clean_question_text" =>
        /\ ret.raised = "none"
        /\ ~HasLabel(ret.value)
        /\ ~HasSection(ret.value)
        /\ ret.value = strip(ret.value)
        /\ ~HasSection(args.question_text) => endswith(ret.value, <<"?">>)
        /\ HasSection(args.question_text) => Contains(args.question_text, ret.value)

\* 'Q: What is ATP Answer: B' was cleaned to 'What is ATP'.
C22_Witness ==
    /\ op = "_clean_question_text"
    /\ args.question_text = LabelQSpace \o BodyWhatIsAtp \o SectionAnswer
    /\ ret.value = BodyWhatIsAtp

\* A record of the capability with an option count other than 4 or with a
\* correct answer that is none of its options.
Malformed(q_data) ==
    /\ {"options", "correct_answer"} \subseteq DOMAIN q_data
    /\ \/ Len(q_data.options) # 4
       \/ ~In(q_data.correct_answer, q_data.options)

\* The records of the response that generate_mcq looks at.
RecordsTaken ==
    SubSeq(oracle.response.questions_data, 1,
           Min(Len(oracle.response.questions_data), args.num_questions))

GeminiStructured ==
    /\ op = "GeminiQuestionGenerator.generate_mcq"
    /\ model_loaded["GeminiQuestionGenerator"]
    /\ oracle.response.status = "ok"

\* C23: a malformed record of the capability (option count other than 4, or
\* correct answer not among the options) is never discarded or corrected by
\* the Generator: it is in the output of generate_mcq with its options and
\* its correct answer unchanged.
C23_MalformedRecordsReturned ==
    GeminiStructured =>
        \A i \in 1..Len(RecordsTaken) :
            Malformed(RecordsTaken[i]) =>
                \E k \in 1..Len(ret.value) :
                    /\ ret.value[k].options = RecordsTaken[i].options
                    /\ ret.value[k].correct_answer = RecordsTaken[i].correct_answer

\* C23, what the code does: the output holds, in the order of the response,
\* the records that have all four fields, 4 options and the correct answer
\* among them; every other record is dropped.
C23_MalformedRecordsDropped ==
    GeminiStructured =>
        LET kept == SelectSeq(RecordsTaken,
                        LAMBDA q_data :
                            /\ {"question", "options", "correct_answer", "explanation"}
                                  \subseteq DOMAIN q_data
                            /\ ~Malformed(q_data))
        IN  /\ Len(ret.value) = Len(kept)
            /\ \A k \in 1..Len(kept) :
                 /\ ret.value[k].options = kept[k].options
                 /\ ret.value[k].correct_answer = kept[k].correct_answer
                 /\ ~Malformed(ret.value[k])

\* The capability answered with a record of 3 options and a record whose
\* answer is no option, and generate_mcq returned the empty list.
C23_Witness ==
    /\ GeminiStructured
    /\ args.num_questions = 2
    /\ Len(RecordsTaken) = 2
    /\ Len(RecordsTaken[1].options) = 3
    /\ RecordsTaken[2].correct_answer = Madrid
    /\ ret.value = <<>>

\* The levels in the order check_bloom_level tries them, each with its
\* keywords.
BloomPriority ==
    <<[level |-> "create", keywords |-> create_keywords],
      [level |-> "evaluate", keywords |-> evaluate_keywords],
      [level |-> "analyze", keywords |-> analyze_keywords],
      [level |-> "apply", keywords |-> apply_keywords],
      [level |-> "understand", keywords |-> understand_keywords],
      [level |-> "remember", keywords |-> remember_keywords]>>

\* The places in BloomPriority of the levels with a keyword in the
\* lower-cased text.
LevelsMatching(question_text) ==
    {i \in 1..6 : \E k \in 1..Len(BloomPriority[i].keywords) :
                      Contains(lower(question_text), BloomPriority[i].keywords[k])}

ExpectedBloomLevel(question_text) ==
    IF LevelsMatching(question_text) = {} THEN "understand"
    ELSE BloomPriority[CHOOSE i \in LevelsMatching(question_text) :
                           \A j \in LevelsMatching(question_text) : i <= j].level

\* C24: check_bloom_level returns the level of the first keyword list, in the
\* order create, evaluate, analyze, apply, understand, remember, that has a
\* keyword in the lower-cased question text, and understand when none has; a
\* text with 'compare' and no keyword of create or evaluate gets analyze.
\* validate_question_quality reports the same level in its metrics.
C24_BloomLevelByPriority ==
    /\ op = "check_bloom_level" =>
          /\ ret.value = ExpectedBloomLevel(args.question_text)
          /\ (Contains(lower(args.question_text), <<"c", "o", "m", "p", "a", "r", "e">>)
              /\ LevelsMatching(args.question_text) \cap {1, 2} = {}) =>
                 ret.value = "analyze"
    /\ (op = "validate_question_quality" /\ ret.raised = "none") =>
          ret.quality_metrics.bloom_level
             = ExpectedBloomLevel(DictGet(args.question, "question", <<>>))

\* 'Compare mitosis and meiosis' was classified as analyze.
C24_Witness ==
    /\ op = "check_bloom_level"
    /\ args.question_text = CompareText
    /\ LevelsMatching(args.question_text) = {3, 5}
    /\ ret.value = "analyze"

\* The places where a word of the text starts: a character that is not white
\* space at the start or after white space.
WordStarts(text) ==
    {i \in 1..Len(text) : ~IsSpace(text[i]) /\ (i = 1 \/ IsSpace(text[i - 1]))}

\* The word that starts at place i.
WordAt(text, i) ==
    SubSeq(text, i, CHOOSE j \in i..Len(text) :
                        /\ \A k \in i..j : ~IsSpace(text[k])
                        /\ (j = Len(text) \/ IsSpace(text[j + 1])))

\* The places where a sentence starts: the first character that is neither
\* white space nor . ! ? at the start or since the last . ! ?.
SentenceStarts(text) ==
    {i \in 1..Len(text) :
        /\ ~IsSpace(text[i]) /\ text[i] \notin {".", "!", "?"}
        /\ \/ \A k \in 1..(i - 1) : IsSpace(text[k])
           \/ \E p \in 1..(i - 1) :
                 /\ text[p] \in {".", "!", "?"}
                 /\ \A k \in (p + 1)..(i - 1) : IsSpace(text[k])}

\* 'high', 'medium' or 'low' from the counts W, S and U as the claim states
\* it; comparing the ratios W/S and U/W is done on cross-multiplied integers.
ComplexityFromCounts(W, S, U) ==
    LET avg_over(n) == S # 0 /\ W > n * S
        vocabulary_over(tenths) == W # 0 /\ 10 * U > tenths * W
    IN  IF avg_over(20) /\ vocabulary_over(6) THEN "high"
        ELSE IF avg_over(15) /\ vocabulary_over(4) THEN "medium"
        ELSE "low"

\* C25: analyze_text_complexity returns 'high' when W/S > 20 and U/W > 0.6,
\* else 'medium' when W/S > 15 and U/W > 0.4, else 'low', with W the words, S
\* the sentences and U the distinct lower-cased words of the text; with S = 0 or
\* W = 0 it returns 'low' and raises nothing.
C25_ComplexityFromRatios ==
    op = "analyze_text_complexity" =>
        LET text == args.text
            W == Cardinality(WordStarts(text))
            S == Cardinality(SentenceStarts(text))
            U == Cardinality({lower(WordAt(text, i)) : i \in WordStarts(text)})
        IN  /\ ret.raised = "none"
            /\ ret.value.word_count = W
            /\ ret.value.sentence_count = S
            /\ ret.value.complexity_level = ComplexityFromCounts(W, S, U)
            /\ ret.value.difficulty = ret.value.complexity_level
            /\ (S = 0 \/ W = 0) => ret.value.complexity_level = "low"

\* One sentence of 25 words, 15 of them distinct, is 'medium': U/W is 0.6 and
\* not above it.
C25_Witness ==
    /\ op = "analyze_text_complexity"
    /\ args.text = ComplexityText(1, 25, 14)
    /\ ret.value.word_count = 25
    /\ ret.value.sentence_count = 1
    /\ Cardinality({lower(WordAt(args.text, i)) : i \in WordStarts(args.text)}) = 15
    /\ ret.value.complexity_level = "medium"

\* The places of a cleaned text (white space is single there) where a
\* sentence starts: a character that is neither white space nor . ! ? at the
\* start, after . ! ?, or after one blank that follows . ! ?.
CleanedSentenceStarts(s) ==
    LET inside(i) == ~IsSpace(s[i]) /\ s[i] \notin {".", "!", "?"}
        mark(i) == i < 1 \/ s[i] \in {".", "!", "?"}
    IN  {i \in 1..Len(s) : inside(i) /\ (mark(i - 1) \/ (IsSpace(s[i - 1]) /\ mark(i - 2)))}

\* The places where a sentence ends: the same, read from the right.
CleanedSentenceEnds(s) ==
    LET inside(i) == ~IsSpace(s[i]) /\ s[i] \notin {".", "!", "?"}
        mark(i) == i > Len(s) \/ s[i] \in {".", "!", "?"}
    IN  {i \in 1..Len(s) : inside(i) /\ (mark(i + 1) \/ (IsSpace(s[i + 1]) /\ mark(i + 2)))}

\* The sentences of a cleaned text in their order.
CleanedSentences(s) ==
    LET starts == SortedSeq(CleanedSentenceStarts(s))
        ends == SortedSeq(CleanedSentenceEnds(s))
    IN  [k \in 1..Len(starts) |-> SubSeq(s, starts[k], ends[k])]

\* Sentences a..b put together as a chunk is.
RunOfSentences(sentences, a, b) ==
    join(<<".", " ">>, SubSeq(sentences, a, b)) \o <<".">>

\* The runs a..b of sentences, each as <<a, b>>.
RunsWithin(n) ==
    {<<a, b>> : a \in 1..n, b \in 1..n} \cap {r \in (1..n) \X (1..n) : r[1] <= r[2]}

\* chunks are disjoint runs of the sentences, in their order, every one of
\* at most `most` words unless (with single_exempt) it is a single sentence.
ChunksAreRuns(chunks, sentences, most, single_exempt) ==
    \E runs \in [1..Len(chunks) -> RunsWithin(Len(sentences))] :
        /\ \A i \in 1..Len(chunks) :
              /\ chunks[i] = RunOfSentences(sentences, runs[i][1], runs[i][2])
              /\ \/ Cardinality(WordStarts(chunks[i])) <= most
                 \/ single_exempt /\ runs[i][1] = runs[i][2]
        /\ \A i \in 1..(Len(chunks) - 1) : runs[i][2] < runs[i + 1][1]

\* C26 as claimed: the chunks of the accumulation loop (the result, when it is
\* not the one fallback chunk) are disjoint runs of consecutive sentences of
\* the cleaned text in their order, and every chunk has at most 300 words, a
\* single sentence of more than 300 words included.
C26_ChunksAtMost300Words ==
    (op = "preprocess_text" /\ ret.value # <<clean_text(args.text)>>) =>
        ChunksAreRuns(ret.value, CleanedSentences(clean_text(args.text)), 300, FALSE)

\* C26, what holds: the chunks are disjoint runs of consecutive sentences in
\* their order, and a chunk has at most 300 words unless it is one sentence
\* that has more than 300 words itself.
C26_ChunksAtMost300WordsOrOneSentence ==
    (op = "preprocess_text" /\ ret.value # <<clean_text(args.text)>>) =>
        ChunksAreRuns(ret.value, CleanedSentences(clean_text(args.text)), 300, TRUE)

\* A sentence of 310 words after a sentence of one word came back as a chunk
\* of 310 words.
C26_Witness ==
    /\ op = "preprocess_text"
    /\ args.text = TextOfSentences(<<1, 310>>, 1)
    /\ Len(ret.value) = 1
    /\ ret.value # <<clean_text(args.text)>>
    /\ Cardinality(WordStarts(ret.value[1])) = 310

\* Two white-space characters next to each other.
HasDoubleSpace(s) ==
    \E i \in 1..(Len(s) - 1) : IsSpace(s[i]) /\ IsSpace(s[i + 1])

\* Two of the marks . ! ? next to each other, equal or not.
HasMarkRun(s) ==
    \E i \in 1..(Len(s) - 1) : s[i] \in {".", "!", "?"} /\ s[i + 1] \in {".", "!", "?"}

\* The same mark twice in a row.
HasRepeatedMark(s) ==
    \E i \in 1..(Len(s) - 1) : s[i] \in {".", "!", "?"} /\ s[i + 1] = s[i]

OnlyKeptCharacters(s) ==
    \A i \in 1..Len(s) :
        \/ s[i] \in Range(LowerChars) \cup Range(UpperChars) \cup Range(DigitChars) \cup {"_"}
        \/ s[i] \in {" ", "\t", "\n"}
        \/ s[i] \in {".", "!", "?", ",", "-"}

\* C27 as claimed: the output of clean_text holds only word characters,
\* white space and . ! ? , -, no two white-space characters in a row, and no
\* run of two or more of the marks . ! ?, equal or mixed.
C27_CleanedTextNormalised ==
    op = "clean_text" =>
        /\ OnlyKeptCharacters(ret.value)
        /\ ~HasDoubleSpace(ret.value)
        /\ ~HasMarkRun(ret.value)

\* C27, what holds: the output holds only the kept characters, has no white
\* space at either end, never the same mark twice in a row, and two
\* white-space characters in a row only when the input held a character that
\* was stripped.
C27_CleanedTextPartlyNormalised ==
    op = "clean_text" =>
        /\ OnlyKeptCharacters(ret.value)
        /\ ~HasRepeatedMark(ret.value)
        /\ ret.value # <<>> => ~IsSpace(ret.value[1]) /\ ~IsSpace(ret.value[Len(ret.value)])
        /\ OnlyKeptCharacters(args.text) => ~HasDoubleSpace(ret.value)

\* 'cost @ 5 - 3' came back with two blanks where the @ stood, and
\* 'Really?! Wait...! Yes.' with the runs ?! and .! in it.
C27_Witness ==
    /\ op = "clean_text"
    /\ \/ args.text = StrippedBetweenText /\ HasDoubleSpace(ret.value)
       \/ args.text = MixedMarksText /\ HasMarkRun(ret.value) /\ ~HasRepeatedMark(ret.value)

\* The score of one distractor of similarity s hundredths as the claim
\* states it: 100 from 0.3 to 0.7, 100 - (0.3 - s) * 200 below, 100 -
\* (s - 0.7) * 300 above, never under 0.
ClaimedDistractorScore(s) ==
    IF 30 <= s /\ s <= 70 THEN 100
    ELSE IF s < 30 THEN (IF 100 - 2 * (30 - s) > 0 THEN 100 - 2 * (30 - s) ELSE 0)
    ELSE (IF 100 - 3 * (s - 70) > 0 THEN 100 - 3 * (s - 70) ELSE 0)

\* The options that differ from the correct answer, as places of the list.
DistractorPlaces ==
    {i \in 1..Len(args.options) : args.options[i] # args.correct_answer}

RECURSIVE SumOverPlaces(_)
SumOverPlaces(places) ==
    IF places = {} THEN 0
    ELSE LET i == CHOOSE p \in places : TRUE
         IN  ClaimedDistractorScore(oracle.sim[args.options[i]]) + SumOverPlaces(places \ {i})

\* score_distractor_quality ran with the capability present and the
\* embedding of the options succeeded.
ScoredWithEmbeddings ==
    /\ op = "score_distractor_quality"
    /\ SIMILARITY_MODEL_LOADED
    /\ DistractorPlaces # {}
    /\ oracle.status # "raise"

\* C28 as claimed: with the embedding capability present the result is an
\* integer of 0..100, the mean of the scores of the distractors rounded to
\* the nearest integer, and 0 when no option differs from the correct answer.
C28_MeanRoundedToNearest ==
    /\ (op = "score_distractor_quality" /\ SIMILARITY_MODEL_LOADED /\ DistractorPlaces = {})
          => ret.value = 0
    /\ ScoredWithEmbeddings =>
          LET n == Cardinality(DistractorPlaces)
              total == SumOverPlaces(DistractorPlaces)
              distance == IF n * ret.value >= total THEN n * ret.value - total
                          ELSE total - n * ret.value
          IN  ret.value \in 0..100 /\ 2 * distance <= n

\* C28, what holds: the result is an integer of 0..100, the mean of the
\* scores of the distractors with its fraction cut off, and 0 when no
\* option differs from the correct answer.
C28_MeanCutToInteger ==
    /\ (op = "score_distractor_quality" /\ SIMILARITY_MODEL_LOADED /\ DistractorPlaces = {})
          => ret.value = 0
    /\ ScoredWithEmbeddings =>
          LET n == Cardinality(DistractorPlaces)
              total == SumOverPlaces(DistractorPlaces)
          IN  /\ ret.value \in 0..100
              /\ n * ret.value <= total
              /\ total < n * (ret.value + 1)

\* Three distractors of scores 98, 98 and 100, mean 98.67, were scored 98.
C28_Witness ==
    /\ ScoredWithEmbeddings
    /\ Cardinality(DistractorPlaces) = 3
    /\ SumOverPlaces(DistractorPlaces) = 296
    /\ ret.value = 98

\* The cause for which the endpoint rejects the request, read off the
\* request and the generator's flag: the first of the three in the order of
\* the claim, or none.
RejectionCause ==
    LET text == args.request.text
        blank(c) == c \in {" ", "\t", "\n"}
        stripped_length ==
            IF \A i \in 1..Len(text) : blank(text[i]) THEN 0
            ELSE LET first == CHOOSE i \in 1..Len(text) :
                                  ~blank(text[i]) /\ \A j \in 1..(i - 1) : blank(text[j])
                     last == CHOOSE i \in 1..Len(text) :
                                 ~blank(text[i]) /\ \A j \in (i + 1)..Len(text) : blank(text[j])
                 IN  last - first + 1
    IN  IF ~model_loaded["GeminiQuestionGenerator"] THEN "model not loaded"
        ELSE IF stripped_length < 50 THEN "text too short"
        ELSE IF args.request.num_questions \notin 1..20 THEN "count out of range"
        ELSE "none"

NothingGeneratedOrSaved ==
    /\ ret.generate_mcq_calls = 0
    /\ ret.saved = <<>>
    /\ ret.questions = <<>>

\* C29 as claimed: a rejected request is answered with the status raised for
\* its cause, 503 when the model is not loaded, 400 when the stripped text
\* has fewer than 50 characters, 400 when num_questions is outside 1..20;
\* 500 answers only a failure of the generation, and a rejected request
\* generates and saves nothing.
C29_RejectionKeepsItsStatus ==
    op = "generate_questions" =>
        /\ RejectionCause = "model not loaded" => ret.status_code = 503
        /\ RejectionCause \in {"text too short", "count out of range"} => ret.status_code = 400
        /\ ret.status_code = 500 => (RejectionCause = "none" /\ oracle.generation.status = "raise")
        /\ RejectionCause # "none" => NothingGeneratedOrSaved

\* C29, what holds: every rejected request is answered with 500, whatever
\* its cause, as a failure of the generation is; a rejected request generates
\* and saves nothing, and an accepted request whose generation returns is
\* answered with 200 and the questions.
C29_RejectionAnsweredWith500 ==
    op = "generate_questions" =>
        /\ RejectionCause # "none" => (ret.status_code = 500 /\ NothingGeneratedOrSaved)
        /\ (RejectionCause = "none" /\ oracle.generation.status = "raise") =>
              (ret.status_code = 500 /\ ret.generate_mcq_calls = 1 /\ ret.saved = <<>>)
        /\ (RejectionCause = "none" /\ oracle.generation.status = "return") =>
              /\ ret.status_code = 200
              /\ ret.questions = oracle.generation.questions
              /\ ret.total_generated = Len(ret.questions)
              /\ ret.generate_mcq_calls = 1
              /\ Len(ret.saved) = Cardinality({i \in 1..Len(ret.questions) : oracle.save_ok[i]})

\* A request of 49 characters between blanks, with the model loaded, was
\* answered with 500 after HTTPException(400) was raised.
C29_Witness ==
    /\ op = "generate_questions"
    /\ RejectionCause = "text too short"
    /\ Len(args.request.text) >= 50
    /\ ret.raised_in_try = HTTPException(400)
    /\ ret.status_code = 500
    /\ NothingGeneratedOrSaved

====
